---- MODULE Spec2Model ----
(***************************************************************************)
(* A model of the serai processor's signer-session manager                 *)
(* (processor/signers/src/lib.rs), its cosigner task                       *)
(* (processor/signers/src/cosign/mod.rs) and the attempt manager the task  *)
(* drives.                                                                 *)
(*                                                                         *)
(* The database is one record, db, of the committed rows and channels. A   *)
(* transaction is a working copy of it that becomes db on commit and is    *)
(* dropped when the process aborts: txn for the caller of the Signers API, *)
(* who commits when it chooses. The cosigner task opens and commits its    *)
(* transactions within one step.                                           *)
(***************************************************************************)
EXTENDS Integers, Sequences, FiniteSets, TLC

VARIABLES
  db,             \* the committed database
  txn,            \* the API caller's open transaction (a working copy of db)
  pc,             \* "up": a Signers object exists; "down": the process is not running
  tasks,          \* Signers.tasks: the sessions that have task handles
  call,           \* the last Signers call, its arguments and what it woke
  current_cosign, \* CosignerTask.current_cosign
  manager,        \* CosignerTask.attempt_manager
  tpc,            \* where the cosigner task is in run_iteration: "check" or "handle"
  hist,           \* what the cosigner task and its attempt manager did, for the properties
  sdb,            \* the coordinator's committed channels (coordinator/substrate)
  stxn,           \* the transaction open on sdb, or None
  slog,           \* what was sent on and received from the channels of sdb, for the properties
  imsgs,          \* two messages of processor/messages
  intents,        \* their intents, once computed, or None
  scanned,        \* what the scanner stored for the block the report task is at
  report,         \* the report task: its database rows, its position and its batches
  codec,          \* a stream of the request-response protocol, what was written and read
  clsag,          \* a CLSAG: what is signed, the signature, what verify is given and returns
  cinput,         \* the arguments of ClsagInput::new and what it returned
  wire,           \* a Clsag, the bytes written for it and what was read back
  provided,       \* ProvidedTransactions: its database, its queue and the last result
  cdb,            \* the coordinator's Keys and SlashReports rows and the last call on them
  router,         \* the Router contract: its state, its events and the last call
  keyblob,        \* key shares given to register_keys, their blob and what boot reads back
  ring_loop,      \* a run of the CLSAG core loop: its inputs and what each iteration did
  mq,             \* the message queue: its database, the calls in progress and their ids
  scandb,         \* the scanner's queued outputs and what was taken
  cursor          \* the scanner's block cursors, the report task and its last iteration

vars ==
  <<db, txn, pc, tasks, call, current_cosign, manager, tpc, hist, sdb, stxn, slog,
    imsgs, intents, scanned, report, codec, clsag,
    cinput, wire, provided, cdb, router, keyblob, ring_loop, mq, scandb, cursor>>
signerVars == <<txn, pc, tasks, call>>
cosignVars == <<current_cosign, manager, tpc, hist>>
\* The processor's signers: the session manager and the cosigner task
signersVars == <<db, txn, pc, tasks, call, current_cosign, manager, tpc, hist>>
substrateVars == <<sdb, stxn, slog>>
intentVars == <<imsgs, intents>>
reportVars == <<scanned, report>>
codecVars == <<codec>>
clsagVars == <<clsag>>
\* The variables of the components modelled after the coordinator's channels and the intents
\* The variables of the components modelled last
lastVars == <<keyblob, ring_loop, mq, scandb, cursor>>
laterVars == <<cinput, wire, provided, cdb, router, lastVars>>
\* The components before them
baseVars == <<signersVars, substrateVars, intentVars, reportVars, codecVars, clsagVars>>
firstVars == <<baseVars, lastVars>>
\* The components modelled before the last ones
priorVars == <<baseVars, cinput, wire, provided, cdb, router>>
restVars == <<reportVars, codecVars, clsagVars, laterVars>>
\* Everything but the signers
otherVars == <<substrateVars, intentVars, restVars>>

\* Option<T>: None is the empty tuple, Some(x) the tuple of x
None == <<>>
Some(x) == <<x>>
Unwrap(opt) == opt[1]

----------------------------------------------------------------------------
(* Bounds *)

MaxSession == 1
NumKeys == 1
MaxShares == 1
MaxRegistered == 2
MaxStored == 2
MaxBlock == 2
NumHashes == 2
MaxAttempt == 2
MaxQueue == 1
NumParticipants == 3
Threshold == 2
NumNetworks == 2
NumSets == 1
NumValues == 2
MaxSends == 3

Sessions == 0 .. MaxSession
Keys == 1 .. NumKeys
Blocks == 1 .. MaxBlock
Hashes == 1 .. NumHashes
Attempts == 0 .. MaxAttempt
Participants == 1 .. NumParticipants

----------------------------------------------------------------------------
(* Messages: processor/messages/src/lib.rs, mod sign *)

Variants == {"Cosign", "Batch", "SlashReport", "Transaction"}
Kinds == {"Preprocesses", "Shares", "Reattempt"}

SignId(session, variant, n, attempt) ==
  [session |-> session, id |-> [variant |-> variant, n |-> n], attempt |-> attempt]

\* A sign_id that loses the attempt
sign_id_FirstAttempt(msg) == [msg.id EXCEPT !.attempt = 0]

\* CoordinatorMessage::sign_id: every kind carries its SignId in `id`
sign_id(msg) == msg.id

----------------------------------------------------------------------------
(* The database *)

SessionChannels ==
  {"Cosign", "SlashReport",
   "CoordinatorToCosignerMessages", "CosignerToCoordinatorMessages",
   "CoordinatorToBatchSignerMessages", "BatchSignerToCoordinatorMessages",
   "CoordinatorToSlashReportSignerMessages", "SlashReportSignerToCoordinatorMessages",
   "CoordinatorToTransactionSignerMessages", "TransactionSignerToCoordinatorMessages"}

KeyChannels ==
  {"BatchesToSign", "AcknowledgedBatches", "TransactionsToSign", "CompletedEventualities"}

EmptyDb ==
  [LatestRetiredSession |-> None,
   RegisteredKeys |-> None,
   SerializedKeys |-> [s \in Sessions |-> None],
   ToCleanup |-> None,
   ToCosign |-> [s \in Sessions |-> None],
   LatestCosigned |-> [s \in Sessions |-> None],
   chan |-> [c \in SessionChannels |-> [s \in Sessions |-> <<>>]],
   kchan |-> [c \in KeyChannels |-> [k \in Keys |-> <<>>]]]

\* Option<Vec<_>>::unwrap_or(vec![])
UnwrapOrEmpty(opt) == IF opt = None THEN <<>> ELSE Unwrap(opt)

\* db_channel send: append to the channel's log
Send(d, c, s, m) == [d EXCEPT !.chan[c][s] = Append(@, m)]

\* db_channel try_recv: the head of the log, or None
TryRecv(q) == IF q = <<>> THEN None ELSE Some(Head(q))

\* `while Channel::try_recv(..).is_some() {}`
RECURSIVE DrainQueue(_)
DrainQueue(q) == IF TryRecv(q) = None THEN q ELSE DrainQueue(Tail(q))

Range(f) == {f[i] : i \in DOMAIN f}

RECURSIVE SetToSeq(_)
SetToSeq(S) ==
  IF S = {} THEN <<>>
  ELSE LET x == CHOOSE y \in S : TRUE IN <<x>> \o SetToSeq(S \ {x})

SessionSlots == SetToSeq(SessionChannels \X Sessions)
KeySlots == SetToSeq(KeyChannels \X Keys)
SessionSeq == SetToSeq(Sessions)

RECURSIVE SumLens(_, _, _)
SumLens(f, slots, i) ==
  IF i > Len(slots) THEN 0
  ELSE Len(f[slots[i][1]][slots[i][2]]) + SumLens(f, slots, i + 1)

\* How many messages and cosigns to work on a database holds
Stored(d) ==
  SumLens(d.chan, SessionSlots, 1) + SumLens(d.kchan, KeySlots, 1)
    + SumLens(<<d.ToCosign>>, [i \in 1 .. Len(SessionSeq) |-> <<1, SessionSeq[i]>>], 1)

----------------------------------------------------------------------------
(* Signers: processor/signers/src/lib.rs *)

Call(op, session, arg, outcome, woke) ==
  [op |-> op, session |-> session, arg |-> arg, outcome |-> outcome, woke |-> woke]

\* The channels Signers::new drains for a (session, external_key) of ToCleanup
DrainedKeyChannels ==
  {"BatchesToSign", "AcknowledgedBatches", "TransactionsToSign", "CompletedEventualities"}

DrainedSessionChannels ==
  {"Cosign", "SlashReport",
   "CoordinatorToCosignerMessages", "CosignerToCoordinatorMessages",
   "CoordinatorToBatchSignerMessages", "BatchSignerToCoordinatorMessages",
   "CoordinatorToSlashReportSignerMessages", "SlashReportSignerToCoordinatorMessages",
   "CoordinatorToTransactionSignerMessages", "TransactionSignerToCoordinatorMessages"}

\* The body of the loop over ToCleanup: entry = <<session, external_key>>
CleanupEntry(d, entry) ==
  [d EXCEPT
     !.kchan = [c \in KeyChannels |->
                  IF c \in DrainedKeyChannels
                    THEN [d.kchan[c] EXCEPT ![entry[2]] = DrainQueue(@)]
                    ELSE d.kchan[c]],
     !.chan = [c \in SessionChannels |->
                 IF c \in DrainedSessionChannels
                   THEN [d.chan[c] EXCEPT ![entry[1]] = DrainQueue(@)]
                   ELSE d.chan[c]]]

RECURSIVE CleanupAll(_, _)
CleanupAll(d, entries) ==
  IF entries = <<>> THEN d
  ELSE CleanupAll(CleanupEntry(d, Head(entries)), Tail(entries))

\* The clean-up transaction of Signers::new, as committed
BootCleanup(d) ==
  [CleanupAll(d, UnwrapOrEmpty(d.ToCleanup)) EXCEPT !.ToCleanup = None]

\* The sessions Signers::new spawns tasks for and inserts into `tasks`. The Tasks
\* struct is taken as declared, with its four handles (the cosigner and slash
\* report handles are `todo!` placeholders in the source).
SpawnedSessions(d) == Range(UnwrapOrEmpty(d.RegisteredKeys))

\* Signers::new
Boot ==
  /\ pc = "down"
  /\ db' = BootCleanup(db)
  /\ txn' = db'
  /\ tasks' = SpawnedSessions(db')
  /\ pc' = "up"
  /\ call' = Call("new", None, UnwrapOrEmpty(db.ToCleanup), "ok", {})
  /\ UNCHANGED <<cosignVars, otherVars>>

\* What is committed when the process stops in the clean-up of Signers::new after k
\* entries, had ToCleanup been deleted and committed before the draining
BootInterrupted_DeletesFirst(d, k) ==
  [CleanupAll(d, SubSeq(UnwrapOrEmpty(d.ToCleanup), 1, k)) EXCEPT !.ToCleanup = None]

\* What is committed when the process stops in the clean-up of Signers::new after k
\* entries: the one transaction of the clean-up was not committed
BootInterrupted(d, k) == d

\* Signers::new, with the process stopping before txn.commit()
BootCrash(k) ==
  /\ pc = "down"
  /\ k <= Len(UnwrapOrEmpty(db.ToCleanup))
  /\ db' = BootInterrupted(db, k)
  /\ txn' = db'
  /\ call' = Call("new", None, UnwrapOrEmpty(db.ToCleanup), "crash", {})
  /\ UNCHANGED <<pc, tasks, cosignVars, otherVars>>

\* Some(session.0) <= latest.map(|session| session.0): None is below every Some
SomeLe(x, opt) == opt # None /\ x <= Unwrap(opt)

ThresholdKeys(curve, i) == [curve |-> curve, i |-> i]

\* buf.extend(substrate_keys.serialize()); buf.extend(network_keys.serialize()),
\* over substrate_keys zipped with network_keys
\* The blob with each network share ahead of its substrate share
RECURSIVE SerializeKeys_NetworkFirst(_, _)
SerializeKeys_NetworkFirst(substrate_keys, network_keys) ==
  IF substrate_keys = <<>> \/ network_keys = <<>> THEN <<>>
  ELSE <<Head(network_keys), Head(substrate_keys)>>
         \o SerializeKeys_NetworkFirst(Tail(substrate_keys), Tail(network_keys))

RECURSIVE SerializeKeys(_, _)
SerializeKeys(substrate_keys, network_keys) ==
  IF substrate_keys = <<>> \/ network_keys = <<>> THEN <<>>
  ELSE <<Head(substrate_keys), Head(network_keys)>>
         \o SerializeKeys(Tail(substrate_keys), Tail(network_keys))

AlreadyRetired_OffByOne(t, session) ==
  t.LatestRetiredSession # None /\ session < Unwrap(t.LatestRetiredSession)

\* The early return of register_keys
AlreadyRetired(t, session) == SomeLe(session, t.LatestRetiredSession)

RegisterKeysTxn(t, session, substrate_keys, network_keys) ==
  IF AlreadyRetired(t, session) THEN t
  ELSE [t EXCEPT
          !.RegisteredKeys = Some(Append(UnwrapOrEmpty(@), session)),
          !.SerializedKeys[session] = Some(SerializeKeys(substrate_keys, network_keys))]

\* Signers::register_keys, on the caller's transaction
RegisterKeys(session, k) ==
  /\ pc = "up"
  /\ Len(UnwrapOrEmpty(txn.RegisteredKeys)) < MaxRegistered
  /\ txn' = RegisterKeysTxn(txn, session,
                            [i \in 1 .. k |-> ThresholdKeys("Ristretto", i)],
                            [i \in 1 .. k |-> ThresholdKeys("External", i)])
  /\ call' = Call("register_keys", session, k, "ok", {})
  /\ UNCHANGED <<db, pc, tasks, cosignVars, otherVars>>

NextToRetire(t) ==
  IF t.LatestRetiredSession = None THEN 0 ELSE Unwrap(t.LatestRetiredSession) + 1

RetireAssertion_AtLeast(t, session) == session >= NextToRetire(t)

\* assert_eq!(session, next_to_retire)
RetireAssertion(t, session) == session = NextToRetire(t)

RetireSessionTxn_KeepsRegistered(t, session, external_key) ==
  [t EXCEPT !.LatestRetiredSession = Some(session),
            !.SerializedKeys[session] = None,
            !.ToCleanup = Some(Append(UnwrapOrEmpty(@), <<session, external_key>>))]

\* retire_session queueing the session ahead of those waiting for their clean up
RetireSessionTxn_QueuesFirst(t, session, external_key) ==
  LET t1 == [t EXCEPT !.LatestRetiredSession = Some(session)]
      t2 == IF t1.RegisteredKeys # None
              THEN [t1 EXCEPT !.RegisteredKeys =
                      Some(SelectSeq(Unwrap(@), LAMBDA session_i : session_i # session))]
              ELSE t1
      t3 == [t2 EXCEPT !.SerializedKeys[session] = None]
  IN  [t3 EXCEPT !.ToCleanup = Some(<<<<session, external_key>>>> \o UnwrapOrEmpty(@))]

RetireSessionTxn(t, session, external_key) ==
  LET t1 == [t EXCEPT !.LatestRetiredSession = Some(session)]
      t2 == IF t1.RegisteredKeys # None
              THEN [t1 EXCEPT !.RegisteredKeys =
                      Some(SelectSeq(Unwrap(@), LAMBDA session_i : session_i # session))]
              ELSE t1
      t3 == [t2 EXCEPT !.SerializedKeys[session] = None]
  IN  [t3 EXCEPT !.ToCleanup = Some(Append(UnwrapOrEmpty(@), <<session, external_key>>))]

\* Signers::retire_session, on the caller's transaction. A failed assertion aborts
\* the process: the open transaction is dropped and the memory is lost.
RetireSession(session, external_key) ==
  /\ pc = "up"
  /\ IF RetireAssertion(txn, session)
       THEN /\ txn' = RetireSessionTxn(txn, session, external_key)
            /\ call' = Call("retire_session", session, external_key, "ok", {})
            /\ UNCHANGED <<pc, tasks>>
       ELSE /\ txn' = db
            /\ pc' = "down"
            /\ tasks' = {}
            /\ call' = Call("retire_session", session, external_key, "panic", {})
  /\ UNCHANGED <<db, cosignVars, otherVars>>

ChannelFor_BatchToTransaction(variant) ==
  CASE variant = "Cosign" -> "CoordinatorToCosignerMessages"
    [] variant = "Batch" -> "CoordinatorToTransactionSignerMessages"
    [] variant = "SlashReport" -> "CoordinatorToSlashReportSignerMessages"
    [] variant = "Transaction" -> "CoordinatorToTransactionSignerMessages"

\* The match of queue_message on sign_id.id: the channel and the task handle
ChannelFor(variant) ==
  CASE variant = "Cosign" -> "CoordinatorToCosignerMessages"
    [] variant = "Batch" -> "CoordinatorToBatchSignerMessages"
    [] variant = "SlashReport" -> "CoordinatorToSlashReportSignerMessages"
    [] variant = "Transaction" -> "CoordinatorToTransactionSignerMessages"

HandleFor(variant) ==
  CASE variant = "Cosign" -> "cosigner"
    [] variant = "Batch" -> "batch"
    [] variant = "SlashReport" -> "slash_report"
    [] variant = "Transaction" -> "transaction"

QueueMessageTxn(t, message) ==
  Send(t, ChannelFor(sign_id(message).id.variant), sign_id(message).session, message)

\* if let Some(tasks) = self.tasks.get(&session) { tasks.<handle>.run_now() }
RunNow(tk, session, handle) == IF session \in tk THEN {<<session, handle>>} ELSE {}

QueueMessageWoken(tk, message) ==
  RunNow(tk, sign_id(message).session, HandleFor(sign_id(message).id.variant))

CoordinatorMessages ==
  [kind : Kinds, id : {SignId(s, v, 0, 0) : s \in Sessions, v \in Variants}, data : {<<>>}]

\* Signers::queue_message, on the caller's transaction
QueueMessage(message) ==
  /\ pc = "up"
  /\ Stored(txn) < MaxStored
  /\ txn' = QueueMessageTxn(txn, message)
  /\ call' = Call("queue_message", sign_id(message).session, message, "ok",
                  QueueMessageWoken(tasks, message))
  /\ UNCHANGED <<db, pc, tasks, cosignVars, otherVars>>

\* Signers::cosign_block: sends on db::Cosign and commits the transaction it was given
CosignBlock(session, block_number, block) ==
  /\ pc = "up"
  /\ Stored(txn) < MaxStored
  /\ txn' = Send(txn, "Cosign", session, <<block_number, block>>)
  /\ db' = txn'
  /\ call' = Call("cosign_block", session, <<block_number, block>>, "ok",
                  RunNow(tasks, session, "cosigner"))
  /\ UNCHANGED <<pc, tasks, cosignVars, otherVars>>

\* Signers::sign_slash_report: sends on db::SlashReport and commits
SignSlashReport(session, slash_report) ==
  /\ pc = "up"
  /\ Stored(txn) < MaxStored
  /\ txn' = Send(txn, "SlashReport", session, slash_report)
  /\ db' = txn'
  /\ call' = Call("sign_slash_report", session, slash_report, "ok",
                  RunNow(tasks, session, "slash_report"))
  /\ UNCHANGED <<pc, tasks, cosignVars, otherVars>>

\* The caller commits its transaction
Commit ==
  /\ pc = "up"
  /\ txn # db
  /\ db' = txn
  /\ call' = Call("commit", None, None, "ok", {})
  /\ UNCHANGED <<txn, pc, tasks, cosignVars, otherVars>>

\* The process stops: the open transaction and the memory are lost
Crash ==
  /\ pc = "up"
  /\ pc' = "down"
  /\ txn' = db
  /\ tasks' = {}
  /\ call' = Call("crash", None, None, "ok", {})
  /\ UNCHANGED <<db, cosignVars, otherVars>>

----------------------------------------------------------------------------
(* The writers of the rows and channels that Signers only reads or drains *)

\* The channels written by the signer tasks and by the scanner and scheduler
TaskChannels ==
  {"CosignerToCoordinatorMessages", "BatchSignerToCoordinatorMessages",
   "SlashReportSignerToCoordinatorMessages", "TransactionSignerToCoordinatorMessages"}

\* A signer task sends a message for the coordinator, in a transaction of its own
TaskSend(c, session) ==
  /\ pc = "up"
  /\ Stored(txn) < MaxStored
  /\ db' = Send(db, c, session, "msg")
  /\ txn' = Send(txn, c, session, "msg")
  /\ call' = Call("task_send", session, c, "ok", {})
  /\ UNCHANGED <<pc, tasks, cosignVars, otherVars>>

\* The scanner or the scheduler sends on a channel keyed by the external key
ScannerSend(c, key) ==
  /\ pc = "up"
  /\ Stored(txn) < MaxStored
  /\ db' = [db EXCEPT !.kchan[c][key] = Append(@, "msg")]
  /\ txn' = [txn EXCEPT !.kchan[c][key] = Append(@, "msg")]
  /\ call' = Call("scanner_send", None, c, "ok", {})
  /\ UNCHANGED <<pc, tasks, cosignVars, otherVars>>

CosignStruct(block_number, block) == [block_number |-> block_number, block |-> block]

\* The cosign to work on is set for a session: ToCosign[session] = cosign, for
\* successive blocks
SetToCosign(session, cosign) ==
  /\ pc = "up"
  /\ db.ToCosign[session] = None => Stored(txn) < MaxStored
  /\ IF db.ToCosign[session] = None THEN TRUE
     ELSE Unwrap(db.ToCosign[session]).block_number < cosign.block_number
  /\ db' = [db EXCEPT !.ToCosign[session] = Some(cosign)]
  /\ txn' = [txn EXCEPT !.ToCosign[session] = Some(cosign)]
  /\ call' = Call("set_to_cosign", session, cosign, "ok", {})
  /\ UNCHANGED <<pc, tasks, cosignVars, otherVars>>

----------------------------------------------------------------------------
(* The attempt manager of a signer task: one machine per active sign id, here the
   cosigns by block number. Preprocesses and shares of the other signers come with
   the outcome of their validation, "ok" or "bad". *)

\* The participant whose key share this validator holds
Me == 1

\* What the other signers of a signing set contributed: a map from participant
Contributions ==
  UNION {[S -> {"ok", "bad"}] :
           S \in {T \in SUBSET (Participants \ {Me}) : Cardinality(T) = Threshold - 1}}

Machine(attempt, phase, message) ==
  [attempt |-> attempt, phase |-> phase, message |-> message]

\* AttemptManager::new: no active sign id
EmptyManager == [b \in Blocks |-> None]

InvalidParticipant(session, participant) ==
  [kind |-> "InvalidParticipant", session |-> session, participant |-> participant]

ProcessorMessage(kind, id) == [kind |-> kind, id |-> id]

Signature(message) == [over |-> message]

Messages(msgs) == [kind |-> "Messages", msgs |-> msgs]

\* register(id, machines): attempt 0, and our preprocesses to broadcast
ManagerRegister(mgr, session, b, message) ==
  [manager |-> [mgr EXCEPT ![b] = Some(Machine(0, "AwaitingPreprocesses", message))],
   msgs |-> <<ProcessorMessage("Preprocesses", SignId(session, "Cosign", b, 0))>>]

\* retire(id): drops the state, if any
ManagerRetire(mgr, b) == [mgr EXCEPT ![b] = None]

Blamed(data) == {p \in DOMAIN data : data[p] = "bad"}

MinOf(S) == CHOOSE x \in S : \A y \in S : x <= y

\* handle(msg): the manager after the message and its Response
ManagerHandle(mgr, msg) ==
  LET id == sign_id(msg)
      b == id.id.n
      ignored == [manager |-> mgr, response |-> Messages(<<>>)]
  IN  IF mgr[b] = None THEN ignored
      ELSE
        LET machine == Unwrap(mgr[b])
            blame ==
              [manager |-> [mgr EXCEPT ![b] = Some([machine EXCEPT !.phase = "Blamed"])],
               response |-> Messages(<<InvalidParticipant(id.session, MinOf(Blamed(msg.data)))>>)]
        IN  CASE msg.kind = "Reattempt" ->
                   IF id.attempt > machine.attempt
                     THEN [manager |-> [mgr EXCEPT ![b] =
                                          Some(Machine(id.attempt, "AwaitingPreprocesses",
                                                       machine.message))],
                           response |-> Messages(<<ProcessorMessage("Preprocesses", id)>>)]
                     ELSE ignored
              [] msg.kind = "Preprocesses" ->
                   IF id.attempt = machine.attempt /\ machine.phase = "AwaitingPreprocesses"
                     THEN IF Blamed(msg.data) # {} THEN blame
                          ELSE [manager |-> [mgr EXCEPT ![b] =
                                               Some([machine EXCEPT !.phase = "AwaitingShares"])],
                                response |-> Messages(<<ProcessorMessage("Shares", id)>>)]
                     ELSE ignored
              [] msg.kind = "Shares" ->
                   IF id.attempt = machine.attempt /\ machine.phase = "AwaitingShares"
                     THEN IF Blamed(msg.data) # {} THEN blame
                          ELSE [manager |-> [mgr EXCEPT ![b] =
                                               Some([machine EXCEPT !.phase = "Done"])],
                                response |-> [kind |-> "Signature", id |-> b,
                                              signature |-> Signature(machine.message)]]
                     ELSE ignored

----------------------------------------------------------------------------
(* The cosigner task: processor/signers/src/cosign/mod.rs *)

\* CosignerTask.session
CS == 0

Inbox == "CoordinatorToCosignerMessages"
Outbox == "CosignerToCoordinatorMessages"

\* What the task did, kept for the properties: per block the highest attempt of a
\* Reattempt handled for the cosign while this manager holds it, and the blocks
\* retired for a newer cosign
EmptyHist ==
  [floor |-> [b \in Blocks |-> 0],
   superseded |-> {}]

\* A forwarding that sends nothing
ForwardMessages_Drops(t, session, msgs) == t

\* for msg in msgs { CosignerToCoordinatorMessages::send(&mut txn, self.session, &msg) }
RECURSIVE ForwardMessages(_, _, _)
ForwardMessages(t, session, msgs) ==
  IF msgs = <<>> THEN t
  ELSE ForwardMessages(Send(t, Outbox, session, Head(msgs)), session, Tail(msgs))

\* A check that ignores LatestCosigned
NotYetCosigned_Always(t, session, cosign) == TRUE

\* LatestCosigned::get(&txn, self.session) < Some(cosign.block_number)
NotYetCosigned(t, session, cosign) ==
  IF t.LatestCosigned[session] = None THEN TRUE
  ELSE Unwrap(t.LatestCosigned[session]) < cosign.block_number

\* The two conditions around the registration of a cosign
IsFresh(t, session, current, cosign) ==
  NotYetCosigned(t, session, cosign) /\ current # Some(cosign)

\* assert!(current_cosign.block_number < cosign.block_number)
SupersedeAssertion(current, cosign) == current.block_number < cosign.block_number

\* A supersession that leaves the old cosign in the manager
RetireCurrent_Keeps(mgr, current) == mgr

\* self.attempt_manager.retire(&mut txn, VariantSignId::Cosign(current_cosign.block_number))
RetireCurrent(mgr, current) ==
  IF current = None THEN mgr ELSE ManagerRetire(mgr, Unwrap(current).block_number)

SignedCosign(cosign, signature) == [cosign |-> cosign, signature |-> signature]

\* A completion that does not record LatestCosigned
CompleteCosign_NoLatest(t, session, cosign, signature) ==
  Send(t, "Cosign", session, SignedCosign(cosign, signature))

\* The Response::Signature arm: LatestCosigned::set, then Cosign::send
CompleteCosign(t, session, cosign, signature) ==
  Send([t EXCEPT !.LatestCosigned[session] = Some(cosign.block_number)],
       "Cosign", session, SignedCosign(cosign, signature))

\* assert_eq!(Some(block_number), self.current_cosign.map(|cosign| cosign.block_number))
CompletionAssertion(current, block_number) ==
  current # None /\ Unwrap(current).block_number = block_number

\* A failed assertion aborts the process: the open transaction is dropped and the
\* task's memory is lost
CosignerAbort ==
  /\ pc' = "down"
  /\ UNCHANGED <<db, txn>>
  /\ current_cosign' = None
  /\ manager' = EmptyManager
  /\ tpc' = "check"

\* run_iteration, "Check the cosign to work on", with its commit when a cosign was
\* registered
CheckCosign ==
  /\ pc = "up"
  /\ tpc = "check"
  /\ Len(db.chan[Outbox][CS]) < MaxQueue
  /\ IF db.ToCosign[CS] # None
        /\ IsFresh(db, CS, current_cosign, Unwrap(db.ToCosign[CS]))
       THEN LET cosign == Unwrap(db.ToCosign[CS])
                reg == ManagerRegister(RetireCurrent(manager, current_cosign), CS,
                                       cosign.block_number, cosign)
            IN  IF current_cosign # None
                  /\ ~SupersedeAssertion(Unwrap(current_cosign), cosign)
                  THEN /\ CosignerAbort
                       /\ hist' = [hist EXCEPT !.floor = EmptyHist.floor]
                  ELSE /\ current_cosign' = Some(cosign)
                       /\ manager' = reg.manager
                       /\ db' = ForwardMessages(db, CS, reg.msgs)
                       /\ txn' = db'
                       /\ tpc' = "handle"
                       /\ hist' =
                            IF current_cosign = None THEN hist
                            ELSE [hist EXCEPT
                                    !.floor[Unwrap(current_cosign).block_number] = 0,
                                    !.superseded = @ \cup {Unwrap(current_cosign).block_number}]
                       /\ UNCHANGED pc
       ELSE /\ tpc' = "handle"
            /\ UNCHANGED <<db, txn, pc, current_cosign, manager, hist>>
  /\ UNCHANGED <<tasks, call>>
  /\ UNCHANGED otherVars

\* The highest attempt of a Reattempt handled for a cosign the manager holds,
\* after msg
FloorAfter(floor, mgr, msg) ==
  LET b == msg.id.id.n
  IN  IF msg.kind = "Reattempt" /\ mgr[b] # None /\ msg.id.attempt > floor[b]
        THEN [floor EXCEPT ![b] = msg.id.attempt]
        ELSE floor

\* run_iteration, one turn of the loop "Handle any messages sent to us" with a
\* message received, and its commit
HandleMessage ==
  /\ pc = "up"
  /\ tpc = "handle"
  /\ TryRecv(db.chan[Inbox][CS]) # None
  /\ Len(db.chan[Outbox][CS]) < MaxQueue
  /\ LET msg == Unwrap(TryRecv(db.chan[Inbox][CS]))
         t == [db EXCEPT !.chan[Inbox][CS] = Tail(@)]
         handled == ManagerHandle(manager, msg)
         response == handled.response
         floor == FloorAfter(hist.floor, manager, msg)
     IN  IF response.kind = "Messages"
           THEN /\ db' = ForwardMessages(t, CS, response.msgs)
                /\ txn' = db'
                /\ manager' = handled.manager
                /\ hist' = [hist EXCEPT !.floor = floor]
                /\ UNCHANGED <<pc, current_cosign, tpc>>
           ELSE IF ~CompletionAssertion(current_cosign, response.id)
                  THEN /\ CosignerAbort
                       /\ hist' = [hist EXCEPT !.floor = EmptyHist.floor]
                  ELSE /\ db' = CompleteCosign(t, CS, Unwrap(current_cosign),
                                              response.signature)
                       /\ txn' = db'
                       /\ current_cosign' = None
                       /\ manager' = handled.manager
                       /\ hist' = [hist EXCEPT !.floor = floor]
                       /\ UNCHANGED <<pc, tpc>>
  /\ UNCHANGED <<tasks, call>>
  /\ UNCHANGED otherVars

\* run_iteration: try_recv returns None, the loop breaks and the iteration ends
EndIteration ==
  /\ pc = "up"
  /\ tpc = "handle"
  /\ TryRecv(db.chan[Inbox][CS]) = None
  /\ tpc' = "check"
  /\ UNCHANGED <<db, txn, pc, tasks, call, current_cosign, manager, hist>>
  /\ UNCHANGED otherVars

\* The process stops
CosignerCrash ==
  /\ pc = "up"
  /\ CosignerAbort
  /\ hist' = [hist EXCEPT !.floor = EmptyHist.floor]
  /\ UNCHANGED <<tasks, call>>
  /\ UNCHANGED otherVars

\* CosignerTask::new, when the process starts again
CosignerNew ==
  /\ pc = "down"
  /\ pc' = "up"
  /\ UNCHANGED <<db, txn, tasks, call, current_cosign, manager, tpc, hist>>
  /\ UNCHANGED otherVars

\* The coordinator's messages for a cosign of this session
CosignMessages ==
  [kind : {"Preprocesses", "Shares"},
   id : {SignId(CS, "Cosign", b, a) : b \in Blocks, a \in Attempts},
   data : Contributions]
  \cup [kind : {"Reattempt"},
        id : {SignId(CS, "Cosign", b, a) : b \in Blocks, a \in Attempts},
        data : {<<>>}]

\* Signers::queue_message and the caller's commit
Deliver(message) ==
  /\ pc = "up"
  /\ Len(db.chan[Inbox][CS]) < MaxQueue
  /\ db' = QueueMessageTxn(db, message)
  /\ txn' = db'
  /\ UNCHANGED <<pc, tasks, call, cosignVars, otherVars>>

\* The coordinator task receives a message of the cosigner and commits
CoordinatorRecv ==
  /\ pc = "up"
  /\ TryRecv(db.chan[Outbox][CS]) # None
  /\ db' = [db EXCEPT !.chan[Outbox][CS] = Tail(@)]
  /\ txn' = db'
  /\ UNCHANGED <<pc, tasks, call, cosignVars, otherVars>>

NextCosign ==
  \/ CheckCosign
  \/ HandleMessage
  \/ EndIteration
  \/ CosignerCrash
  \/ CosignerNew
  \/ \E message \in CosignMessages : Deliver(message)
  \/ CoordinatorRecv
  \/ \E block_number \in Blocks, block \in Hashes :
       SetToCosign(CS, CosignStruct(block_number, block))

----------------------------------------------------------------------------
(* The coordinator's channels: coordinator/substrate/src/lib.rs. A channel of
   db_channel! keeps, per key, the messages by index, the index of the next send
   (tail) and the index of the next receive (head). *)

Networks == 1 .. NumNetworks
ValidatorSets == 1 .. NumSets
\* messages::substrate::CoordinatorMessage and NewSetInformation values
Values == 1 .. NumValues

\* The channels of _public_db with their keys
Slots ==
  ({"Canonical"} \X Networks) \cup {<<"NewSet", <<>>>>}
    \cup ({"SignSlashReport"} \X ValidatorSets)

EmptyChannel == [head |-> 0, tail |-> 0, blobs |-> [i \in 0 .. MaxSends |-> None]]

EmptyChannels == [slot \in Slots |-> EmptyChannel]

\* db_channel send: store the message at the tail and advance the tail
ChannelSend(t, slot, msg) ==
  [t EXCEPT ![slot] = [head |-> t[slot].head,
                       tail |-> t[slot].tail + 1,
                       blobs |-> [t[slot].blobs EXCEPT ![t[slot].tail] = Some(msg)]]]

\* db_channel try_recv: the message at the head, deleted, and the head advanced; or
\* None
ChannelTryRecv(t, slot) ==
  IF t[slot].blobs[t[slot].head] = None THEN [db |-> t, value |-> None]
  ELSE [db |-> [t EXCEPT ![slot] = [head |-> t[slot].head + 1,
                                    tail |-> t[slot].tail,
                                    blobs |-> [t[slot].blobs EXCEPT ![t[slot].head] = None]]],
        value |-> t[slot].blobs[t[slot].head]]

\* A Canonical::send that sends to the first network
CanonicalSend_FirstNetwork(t, network, msg) == ChannelSend(t, <<"Canonical", 1>>, msg)

\* Canonical::send
CanonicalSend(t, network, msg) == ChannelSend(t, <<"Canonical", network>>, msg)

\* Canonical::try_recv
CanonicalTryRecv(t, network) == ChannelTryRecv(t, <<"Canonical", network>>)

\* NewSet::send
NewSetSend(t, msg) == ChannelSend(t, <<"NewSet", <<>>>>, msg)

\* NewSet::try_recv
NewSetTryRecv(t) == ChannelTryRecv(t, <<"NewSet", <<>>>>)

\* SignSlashReport::send: the message is ()
SignSlashReportSend(t, set) == ChannelSend(t, <<"SignSlashReport", set>>, <<>>)

\* SignSlashReport::try_recv
SignSlashReportTryRecv(t, set) == ChannelTryRecv(t, <<"SignSlashReport", set>>)

\* What the callers passed to send and got from try_recv, per channel and key: in
\* committed transactions (sent, recvd) and in the open one (psent, precvd), and the
\* last try_recv with what it returned
EmptyLog ==
  [sent |-> [slot \in Slots |-> <<>>],
   recvd |-> [slot \in Slots |-> <<>>],
   psent |-> [slot \in Slots |-> <<>>],
   precvd |-> [slot \in Slots |-> <<>>],
   last |-> None]

\* The database a call sees: the open transaction, or a new one
View == IF stxn = None THEN sdb ELSE Unwrap(stxn)

LogSend(slot, msg) == [slog EXCEPT !.psent[slot] = Append(@, msg), !.last = None]

\* pending: how many values sent on the channel the caller had not received yet
LogTryRecv(slot, value) ==
  [slog EXCEPT !.precvd[slot] = IF value = None THEN @ ELSE Append(@, Unwrap(value)),
               !.last = Some([slot |-> slot, value |-> value,
                              pending |-> Len(slog.sent[slot]) + Len(slog.psent[slot])
                                            - Len(slog.recvd[slot]) - Len(slog.precvd[slot])])]

\* How many messages were sent on the channels of a database
RECURSIVE TotalSent(_, _)
TotalSent(t, slots) ==
  IF slots = {} THEN 0
  ELSE LET slot == CHOOSE s \in slots : TRUE
       IN  t[slot].tail + TotalSent(t, slots \ {slot})

\* A caller sends on Canonical in its transaction
SendCanonical(network, msg) ==
  /\ TotalSent(View, Slots) < MaxSends
  /\ stxn' = Some(CanonicalSend(View, network, msg))
  /\ slog' = LogSend(<<"Canonical", network>>, msg)
  /\ UNCHANGED <<sdb, signersVars, intentVars, restVars>>

\* A caller receives from Canonical in its transaction
TryRecvCanonical(network) ==
  /\ stxn' = Some(CanonicalTryRecv(View, network).db)
  /\ slog' = LogTryRecv(<<"Canonical", network>>, CanonicalTryRecv(View, network).value)
  /\ UNCHANGED <<sdb, signersVars, intentVars, restVars>>

SendNewSet(msg) ==
  /\ TotalSent(View, Slots) < MaxSends
  /\ stxn' = Some(NewSetSend(View, msg))
  /\ slog' = LogSend(<<"NewSet", <<>>>>, msg)
  /\ UNCHANGED <<sdb, signersVars, intentVars, restVars>>

TryRecvNewSet ==
  /\ stxn' = Some(NewSetTryRecv(View).db)
  /\ slog' = LogTryRecv(<<"NewSet", <<>>>>, NewSetTryRecv(View).value)
  /\ UNCHANGED <<sdb, signersVars, intentVars, restVars>>

SendSignSlashReport(set) ==
  /\ TotalSent(View, Slots) < MaxSends
  /\ stxn' = Some(SignSlashReportSend(View, set))
  /\ slog' = LogSend(<<"SignSlashReport", set>>, <<>>)
  /\ UNCHANGED <<sdb, signersVars, intentVars, restVars>>

TryRecvSignSlashReport(set) ==
  /\ stxn' = Some(SignSlashReportTryRecv(View, set).db)
  /\ slog' = LogTryRecv(<<"SignSlashReport", set>>, SignSlashReportTryRecv(View, set).value)
  /\ UNCHANGED <<sdb, signersVars, intentVars, restVars>>

\* txn.commit()
CommitChannels ==
  /\ stxn # None
  /\ sdb' = Unwrap(stxn)
  /\ stxn' = None
  /\ slog' = [slog EXCEPT !.sent = [slot \in Slots |-> @[slot] \o slog.psent[slot]],
                          !.recvd = [slot \in Slots |-> @[slot] \o slog.precvd[slot]],
                          !.psent = EmptyLog.psent,
                          !.precvd = EmptyLog.precvd,
                          !.last = None]
  /\ UNCHANGED <<signersVars, intentVars, restVars>>

\* The transaction is dropped, by its caller or with the process
DropChannels ==
  /\ stxn # None
  /\ stxn' = None
  /\ slog' = [slog EXCEPT !.psent = EmptyLog.psent, !.precvd = EmptyLog.precvd,
                          !.last = None]
  /\ UNCHANGED <<sdb, signersVars, intentVars, restVars>>

NextChannels ==
  \/ \E network \in Networks, msg \in Values : SendCanonical(network, msg)
  \/ \E network \in Networks : TryRecvCanonical(network)
  \/ \E msg \in Values : SendNewSet(msg)
  \/ TryRecvNewSet
  \/ \E set \in ValidatorSets : SendSignSlashReport(set)
  \/ \E set \in ValidatorSets : TryRecvSignSlashReport(set)
  \/ CommitChannels
  \/ DropChannels

----------------------------------------------------------------------------
(* Intents: processor/messages/src/lib.rs, "Intent generation code". An intent is a
   sequence of bytes. *)

COORDINATOR_UID == 0
PROCESSOR_UID == 1

TYPE_KEY_GEN_UID == 0
TYPE_SIGN_UID == 1
TYPE_COORDINATOR_UID == 2
TYPE_SUBSTRATE_UID == 3

\* to_le_bytes, and the SCALE and borsh encodings of the fixed-width integers: n in
\* w bytes, little-endian
RECURSIVE LeBytes(_, _)
LeBytes(n, w) == IF w = 0 THEN <<>> ELSE <<n % 256>> \o LeBytes(n \div 256, w - 1)

\* Session(u32)
EncodeSession(session) == LeBytes(session, 4)

\* [u8; 32]: a hash h stands for the 32 bytes of h, little-endian
EncodeHash(h) == LeBytes(h, 32)

\* Participant(u16)
EncodeParticipant(participant) == LeBytes(participant, 2)

\* VariantSignId::encode: the index of the variant, then its field
EncodeVariantSignId(id) ==
  CASE id.variant = "Cosign" -> <<0>> \o LeBytes(id.n, 8)
    [] id.variant = "Batch" -> <<1>> \o EncodeHash(id.n)
    [] id.variant = "SlashReport" -> <<2>>
    [] id.variant = "Transaction" -> <<3>> \o EncodeHash(id.n)

\* A SignId encoding that leaves the attempt out
EncodeSignId_NoAttempt(id) == EncodeSession(id.session) \o EncodeVariantSignId(id.id)

\* SignId::encode: session, id, attempt
EncodeSignId(id) ==
  EncodeSession(id.session) \o EncodeVariantSignId(id.id) \o LeBytes(id.attempt, 4)

\* CoordinatorMessage::KeyGen(msg) and the like: the type and the message in it
Wrap(type, msg) == [type |-> type, msg |-> msg]

\* The (sub, id) of each arm of CoordinatorMessage::intent
CoordinatorKeyGenSub(msg) ==
  CASE msg.kind = "GenerateKey" -> <<0, EncodeSession(msg.session)>>
    [] msg.kind = "Participation" ->
         <<1, EncodeSession(msg.session) \o EncodeParticipant(msg.participant)>>

CoordinatorSignSub(msg) ==
  CASE msg.kind = "Preprocesses" -> <<0, msg.id>>
    [] msg.kind = "Shares" -> <<1, msg.id>>
    [] msg.kind = "Reattempt" -> <<2, msg.id>>

\* A CosignSubstrateBlock arm that keeps the block hash in the id
CoordinatorCoordinatorSub_WithBlock(msg) ==
  CASE msg.kind = "CosignSubstrateBlock" ->
         <<0, LeBytes(msg.block_number, 8) \o EncodeHash(msg.block)>>
    [] msg.kind = "SignSlashReport" -> <<1, EncodeSession(msg.session)>>

CoordinatorCoordinatorSub(msg) ==
  CASE msg.kind = "CosignSubstrateBlock" -> <<0, LeBytes(msg.block_number, 8)>>
    [] msg.kind = "SignSlashReport" -> <<1, EncodeSession(msg.session)>>

CoordinatorSubstrateSub(msg) ==
  CASE msg.kind = "SetKeys" -> <<0, EncodeSession(msg.session)>>
    [] msg.kind = "SlashesReported" -> <<1, EncodeSession(msg.session)>>
    [] msg.kind = "Block" -> <<2, LeBytes(msg.serai_block_number, 8)>>

\* CoordinatorMessage::intent
CoordinatorIntent(message) ==
  CASE message.type = "KeyGen" ->
         <<COORDINATOR_UID, TYPE_KEY_GEN_UID, CoordinatorKeyGenSub(message.msg)[1]>>
           \o CoordinatorKeyGenSub(message.msg)[2]
    [] message.type = "Sign" ->
         <<COORDINATOR_UID, TYPE_SIGN_UID, CoordinatorSignSub(message.msg)[1]>>
           \o EncodeSignId(CoordinatorSignSub(message.msg)[2])
    [] message.type = "Coordinator" ->
         <<COORDINATOR_UID, TYPE_COORDINATOR_UID, CoordinatorCoordinatorSub(message.msg)[1]>>
           \o CoordinatorCoordinatorSub(message.msg)[2]
    [] message.type = "Substrate" ->
         <<COORDINATOR_UID, TYPE_SUBSTRATE_UID, CoordinatorSubstrateSub(message.msg)[1]>>
           \o CoordinatorSubstrateSub(message.msg)[2]

\* The (sub, id) of each arm of ProcessorMessage::intent
ProcessorKeyGenSub(msg) ==
  CASE msg.kind = "Participation" -> <<0, EncodeSession(msg.session)>>
    [] msg.kind = "GeneratedKeyPair" -> <<1, EncodeSession(msg.session)>>
    [] msg.kind = "Blame" ->
         <<2, EncodeSession(msg.session) \o EncodeParticipant(msg.participant)>>

ProcessorSignSub(msg) ==
  CASE msg.kind = "InvalidParticipant" ->
         <<0, EncodeSession(msg.session) \o LeBytes(msg.participant, 2)>>
    [] msg.kind = "Preprocesses" -> <<1, EncodeSignId(msg.id)>>
    [] msg.kind = "Shares" -> <<2, EncodeSignId(msg.id)>>

ProcessorCoordinatorSub(msg) ==
  CASE msg.kind = "CosignedBlock" -> <<0, EncodeHash(msg.block)>>
    [] msg.kind = "SignedBatch" -> <<1, LeBytes(msg.batch_id, 4)>>
    [] msg.kind = "SubstrateBlockAck" -> <<2, LeBytes(msg.block, 8)>>
    [] msg.kind = "SignedSlashReport" -> <<3, EncodeSession(msg.session)>>

\* A ProcessorMessage::intent whose Sign arm starts as the coordinator's does
ProcessorIntent_CoordinatorUid(message) ==
  CASE message.type = "KeyGen" ->
         <<PROCESSOR_UID, TYPE_KEY_GEN_UID, ProcessorKeyGenSub(message.msg)[1]>>
           \o ProcessorKeyGenSub(message.msg)[2]
    [] message.type = "Sign" ->
         <<COORDINATOR_UID, TYPE_SIGN_UID, ProcessorSignSub(message.msg)[1]>>
           \o ProcessorSignSub(message.msg)[2]
    [] message.type = "Coordinator" ->
         <<PROCESSOR_UID, TYPE_COORDINATOR_UID, ProcessorCoordinatorSub(message.msg)[1]>>
           \o ProcessorCoordinatorSub(message.msg)[2]

\* ProcessorMessage::intent; substrate::ProcessorMessage has no value
ProcessorIntent(message) ==
  CASE message.type = "KeyGen" ->
         <<PROCESSOR_UID, TYPE_KEY_GEN_UID, ProcessorKeyGenSub(message.msg)[1]>>
           \o ProcessorKeyGenSub(message.msg)[2]
    [] message.type = "Sign" ->
         <<PROCESSOR_UID, TYPE_SIGN_UID, ProcessorSignSub(message.msg)[1]>>
           \o ProcessorSignSub(message.msg)[2]
    [] message.type = "Coordinator" ->
         <<PROCESSOR_UID, TYPE_COORDINATOR_UID, ProcessorCoordinatorSub(message.msg)[1]>>
           \o ProcessorCoordinatorSub(message.msg)[2]

\* The values the intents are computed for. Numbers of more than one byte are
\* among them; payloads that no intent reads take two values.
Numbers == {1, 256, 257}
Payloads == 1 .. NumValues

IntentSignIds ==
  {SignId(s, v, n, a) : s \in {0, 256}, v \in {"Cosign", "Batch"}, n \in {1, 256},
                        a \in {0, 1}}
    \cup {SignId(s, "SlashReport", 0, a) : s \in {0, 256}, a \in {0, 1}}
    \cup {SignId(0, "Transaction", 1, 0)}

KeyGenCoordinatorMessages ==
  [kind : {"GenerateKey"}, session : {0, 1}, threshold : Payloads]
    \cup [kind : {"Participation"}, session : {0, 1}, participant : {1, 2},
          participation : Payloads]

SignCoordinatorMessages ==
  [kind : {"Preprocesses", "Shares"}, id : IntentSignIds, data : Payloads]
    \cup [kind : {"Reattempt"}, id : IntentSignIds, data : {<<>>}]

CoordinatorCoordinatorMessages ==
  [kind : {"CosignSubstrateBlock"}, session : {0, 1}, block_number : Numbers,
   block : Payloads]
    \cup [kind : {"SignSlashReport"}, session : {0, 1}, report : Payloads]

SubstrateCoordinatorMessages ==
  [kind : {"SetKeys"}, serai_time : Payloads, session : {0, 1}]
    \cup [kind : {"SlashesReported"}, session : {0, 1}]
    \cup [kind : {"Block"}, serai_block_number : Numbers, burns : Payloads]

KeyGenProcessorMessages ==
  [kind : {"Participation"}, session : {0, 1}, participation : Payloads]
    \cup [kind : {"GeneratedKeyPair"}, session : {0, 1}, substrate_key : Payloads]
    \cup [kind : {"Blame"}, session : {0, 1}, participant : {1, 2}]

SignProcessorMessages ==
  {InvalidParticipant(s, p) : s \in {0, 1}, p \in {1, 2}}
    \cup {ProcessorMessage(k, id) : k \in {"Preprocesses", "Shares"}, id \in IntentSignIds}

CoordinatorProcessorMessages ==
  [kind : {"CosignedBlock"}, block_number : {1}, block : Payloads, signature : Payloads]
    \cup [kind : {"SignedBatch"}, batch_id : Numbers]
    \cup [kind : {"SubstrateBlockAck"}, block : Numbers, plans : Payloads]
    \cup [kind : {"SignedSlashReport"}, session : {0, 1}, signature : Payloads]

\* A message with where it comes from
From(origin, type, msgs) == {[origin |-> origin, message |-> Wrap(type, m)] : m \in msgs}

IntentMessages ==
  From("Coordinator", "KeyGen", KeyGenCoordinatorMessages)
    \cup From("Coordinator", "Sign", SignCoordinatorMessages)
    \cup From("Coordinator", "Coordinator", CoordinatorCoordinatorMessages)
    \cup From("Coordinator", "Substrate", SubstrateCoordinatorMessages)
    \cup From("Processor", "KeyGen", KeyGenProcessorMessages)
    \cup From("Processor", "Sign", SignProcessorMessages)
    \cup From("Processor", "Coordinator", CoordinatorProcessorMessages)

\* msg.intent()
Intent(m) ==
  IF m.origin = "Coordinator" THEN CoordinatorIntent(m.message)
  ELSE ProcessorIntent(m.message)

\* Any two messages
InitIntent ==
  /\ imsgs \in IntentMessages \X IntentMessages
  /\ intents = None

\* intent() is called on both
ComputeIntents ==
  /\ intents = None
  /\ intents' = Some(<<Intent(imsgs[1]), Intent(imsgs[2])>>)
  /\ UNCHANGED <<imsgs, signersVars, substrateVars, restVars>>

NextIntent == ComputeIntents

----------------------------------------------------------------------------
(* The scanner's report task (processor/scanner/src/report.rs)              *)
(*                                                                          *)
(* An InInstruction is the bytes of its data; its SCALE encoding is those   *)
(* bytes behind their compact length. A received output is its id and its   *)
(* InInstruction.                                                           *)

MaxInstructions == 3
MAX_BATCH_SIZE == 44

OutputIds == {<<0>>, <<0, 1>>, <<1>>}
InInstructions == {<<1>>, <<2, 2>>, <<3, 3, 3>>}
ReceivedInstructions == [output : OutputIds, in_instruction : InInstructions]

\* a.cmp(b) == Ordering::Less for byte slices: lexicographic, a proper prefix first
RECURSIVE SliceLess(_, _)
SliceLess(a, b) ==
  IF b = <<>> THEN FALSE
  ELSE IF a = <<>> THEN TRUE
  ELSE IF a[1] # b[1] THEN a[1] < b[1]
  ELSE SliceLess(Tail(a), Tail(b))

RECURSIVE SortInsert(_, _)
SortInsert(x, s) ==
  IF s = <<>> THEN <<x>>
  ELSE IF SliceLess(x.output, s[1].output) THEN <<x>> \o s
  ELSE <<s[1]>> \o SortInsert(x, Tail(s))

\* in_instructions.sort_by(|a, b| a.output.id().as_ref().cmp(b.output.id().as_ref()))
RECURSIVE SortByOutputId(_)
SortByOutputId(s) ==
  IF s = <<>> THEN <<>> ELSE SortInsert(s[1], SortByOutputId(Tail(s)))

\* The length of a SCALE compact integer
CompactLen(n) == IF n < 64 THEN 1 ELSE IF n < 16384 THEN 2 ELSE 4

RECURSIVE InstructionsLen(_)
InstructionsLen(instructions) ==
  IF instructions = <<>> THEN 0
  ELSE CompactLen(Len(instructions[1])) + Len(instructions[1])
         + InstructionsLen(Tail(instructions))

\* batch.encode().len(): the network, the id, the block hash, the instructions
EncodedLen(batch) ==
  1 + 4 + 32 + CompactLen(Len(batch.instructions)) + InstructionsLen(batch.instructions)

EmptyReportDb == [NextBatchId |-> None, NextToPotentiallyReportBlock |-> Some(0)]

\* acquire_batch_id with the increment left out
acquire_batch_id_NoBump(t) ==
  LET id == IF t.NextBatchId = None THEN 0 ELSE Unwrap(t.NextBatchId)
  IN  [db |-> [t EXCEPT !.NextBatchId = Some(id)], id |-> id]

\* ReportDb::acquire_batch_id; the ids of a block stay far below the width of a u32
acquire_batch_id(t) ==
  LET id == IF t.NextBatchId = None THEN 0 ELSE Unwrap(t.NextBatchId)
  IN  [db |-> [t EXCEPT !.NextBatchId = Some(id + 1)], id |-> id]

Batch(id, block, instructions) ==
  [network |-> "NETWORK", id |-> id, block |-> block, instructions |-> instructions]

\* The loop over the sorted instructions; the transaction and the batches so far
RECURSIVE BuildBatches(_, _, _, _)
BuildBatches(t, block_hash, batches, in_instructions) ==
  IF in_instructions = <<>> THEN [db |-> t, batches |-> batches]
  ELSE
    LET instruction == Head(in_instructions)
        n == Len(batches)
        pushed == [batches[n] EXCEPT !.instructions = Append(@, instruction.in_instruction)]
    IN  IF EncodedLen(pushed) > MAX_BATCH_SIZE
        THEN LET acq == acquire_batch_id(t)
             IN  BuildBatches(acq.db, block_hash,
                   Append(batches, Batch(acq.id, block_hash, <<instruction.in_instruction>>)),
                   Tail(in_instructions))
        ELSE BuildBatches(t, block_hash, [batches EXCEPT ![n] = pushed],
               Tail(in_instructions))

\* The Batch(s) of a notable block, as they are where run_iteration stops
BlockBatches(t, block_hash, in_instructions) ==
  LET acq == acquire_batch_id(t)
  IN  BuildBatches(acq.db, block_hash, <<Batch(acq.id, block_hash, <<>>)>>,
        SortByOutputId(in_instructions))

\* The sequences of received outputs with distinct ids
DistinctOutputs ==
  { s \in UNION { [1 .. n -> ReceivedInstructions] : n \in 0 .. MaxInstructions } :
      \A i, j \in 1 .. Len(s) : i # j => s[i].output # s[j].output }

\* A scanned block, notable or not, and a report task that has reported nothing
InitReport ==
  /\ scanned \in [notable : BOOLEAN, block : Hashes, in_instructions : DistinctOutputs]
  /\ report = [db |-> EmptyReportDb, pc |-> "run", batches |-> None]

IdleReport ==
  /\ scanned = [notable |-> FALSE, block |-> 1, in_instructions |-> <<>>]
  /\ report = [db |-> EmptyReportDb, pc |-> "done", batches |-> None]

\* ReportTask::run_iteration for block b == 0: a notable block's batches are built and the
\* task stops at its todo!() with the transaction uncommitted; any other block is passed
ReportIteration ==
  /\ report.pc = "run"
  /\ report' =
       IF scanned.notable
       THEN [report EXCEPT
               !.batches =
                 Some(BlockBatches(report.db, scanned.block, scanned.in_instructions).batches),
               !.pc = "todo"]
       ELSE [report EXCEPT !.db.NextToPotentiallyReportBlock = Some(1), !.pc = "done"]
  /\ UNCHANGED <<scanned, signersVars, substrateVars, intentVars, codecVars, clsagVars, laterVars>>

NextReport == ReportIteration

----------------------------------------------------------------------------
(* The codec of the request-response protocol (coordinator/p2p/libp2p/src/reqres.rs) *)
(*                                                                          *)
(* A stream is the sequence of the bytes yet to be read from it. The        *)
(* messages are the Responses, with a block or a cosign taken as one byte.  *)

MAX_LIBP2P_REQRES_MESSAGE_SIZE == 6
MaxItems == 2
MaxBody == 7

CodecBytes == {0, 1, 2}
ItemVecs == UNION { [1 .. n -> CodecBytes] : n \in 0 .. MaxItems }

\* enum Response
Responses ==
  {[variant |-> "None"]}
    \cup [variant : {"Blocks", "NotableCosigns"}, items : ItemVecs]

\* u32::from_le_bytes
FromLeBytes(b) == b[1] + 256 * b[2] + 65536 * b[3] + 16777216 * b[4]

\* borsh::to_vec of a Response: the variant's index, then a Vec as its u32 length and items
Serialize(msg) ==
  IF msg.variant = "None" THEN <<0>>
  ELSE <<IF msg.variant = "Blocks" THEN 1 ELSE 2>>
         \o LeBytes(Len(msg.items), 4) \o msg.items

Ok(value, rest) == [ok |-> TRUE, value |-> Some(value), rest |-> rest]
Err(rest) == [ok |-> FALSE, value |-> None, rest |-> rest]

\* Response::deserialize(&mut buf): the message and what is left of buf, or an error
Deserialize(buf) ==
  IF buf = <<>> THEN Err(buf)
  ELSE IF buf[1] = 0 THEN Ok([variant |-> "None"], Tail(buf))
  ELSE IF buf[1] \notin {1, 2} THEN Err(buf)
  ELSE IF Len(buf) < 5 THEN Err(buf)
  ELSE
    LET n == FromLeBytes(SubSeq(buf, 2, 5))
    IN  IF Len(buf) < 5 + n THEN Err(buf)
        ELSE Ok([variant |-> IF buf[1] = 1 THEN "Blocks" ELSE "NotableCosigns",
                 items |-> SubSeq(buf, 6, 5 + n)],
                SubSeq(buf, 6 + n, Len(buf)))

\* The length check of read with nothing refused
TooLong_Never(len) == FALSE

\* len > MAX_LIBP2P_REQRES_MESSAGE_SIZE
TooLong(len) == len > MAX_LIBP2P_REQRES_MESSAGE_SIZE

\* Codec::read: the message or an error, and what is left of the stream
Read(io) ==
  IF Len(io) < 4 THEN Err(<<>>)
  ELSE
    LET len == FromLeBytes(SubSeq(io, 1, 4))
    IN  IF TooLong(len) THEN Err(SubSeq(io, 5, Len(io)))
        ELSE IF Len(io) < 4 + len THEN Err(<<>>)
        ELSE
          LET res == Deserialize(SubSeq(io, 5, 4 + len))
              rest == SubSeq(io, 5 + len, Len(io))
          IN  IF ~res.ok THEN Err(rest)
              ELSE IF res.rest # <<>> THEN Err(rest)
              ELSE Ok(Unwrap(res.value), rest)

\* Codec::write: the length of the serialization in four bytes, then the serialization
Write(io, msg) == io \o LeBytes(Len(Serialize(msg)), 4) \o Serialize(msg)

\* The length prefixes the streams start with, whole and cut short
Prefixes ==
  { LeBytes(n, 4) : n \in 0 .. MaxBody + 1 }
    \cup {<<0, 1, 0, 0>>, <<0, 0, 1, 0>>, <<0, 0, 0, 1>>, <<1, 0>>, <<>>}
Bodies == UNION { [1 .. n -> CodecBytes] : n \in 0 .. MaxBody }
Streams == { p \o b : p \in Prefixes, b \in Bodies }

EmptyCodec == [io |-> <<>>, input |-> <<>>, written |-> None, result |-> None]

\* A stream with any bytes on it, or with none
InitCodec ==
  \E io \in Streams : codec = [EmptyCodec EXCEPT !.io = io, !.input = io]

IdleCodec == codec = EmptyCodec

\* write_response on an empty stream
CodecWrite(msg) ==
  /\ codec.input = <<>>
  /\ codec.written = None
  /\ codec.result = None
  /\ codec' = [codec EXCEPT !.io = Write(@, msg), !.input = Write(@, msg),
                            !.written = Some(msg)]
  /\ UNCHANGED <<signersVars, substrateVars, intentVars, reportVars, clsagVars, laterVars>>

\* read_response
CodecRead ==
  /\ codec.result = None
  /\ codec' = [codec EXCEPT !.io = Read(@).rest,
                            !.result = Some([ok |-> Read(codec.io).ok,
                                             value |-> Read(codec.io).value])]
  /\ UNCHANGED <<signersVars, substrateVars, intentVars, reportVars, clsagVars, laterVars>>

NextCodec ==
  \/ \E msg \in Responses : CodecWrite(msg)
  \/ CodecRead

----------------------------------------------------------------------------
(* CLSAG signatures (coins/monero/ringct/clsag/src/lib.rs)                  *)
(*                                                                          *)
(* The curve is a group of order Q * COFACTOR: a point is its component p   *)
(* in the subgroup of prime order Q and its torsion component t. A scalar   *)
(* is an integer modulo Q. A 32-byte message is one number.                 *)

Q == 5
COFACTOR == 8
NumInputs == 1
MaxRing == 2

Scalars == 0 .. Q - 1
Points == [p : Scalars, t : 0 .. COFACTOR - 1]
Identity == [p |-> 0, t |-> 0]

PointAdd(A, B) == [p |-> (A.p + B.p) % Q, t |-> (A.t + B.t) % COFACTOR]
PointSub(A, B) == [p |-> (A.p - B.p + Q) % Q, t |-> (A.t - B.t + COFACTOR) % COFACTOR]
\* The point A multiplied by the scalar k
Mul(k, A) == [p |-> (k * A.p) % Q, t |-> (k * A.t) % COFACTOR]

ED25519_BASEPOINT_POINT == [p |-> 1, t |-> 0]
\* The generator of the amounts in a commitment
AmountGenerator == [p |-> 2, t |-> 0]
INV_EIGHT == CHOOSE k \in Scalars : (COFACTOR * k) % Q = 1

is_identity(A) == A = Identity
is_torsion_free(A) == (Q * A.t) % COFACTOR = 0
mul_by_cofactor(A) == [p |-> (COFACTOR * A.p) % Q, t |-> (COFACTOR * A.t) % COFACTOR]

\* A.compress().to_bytes(), as a number
Compress(A) == A.p * COFACTOR + A.t

\* hash_to_point: a point of the prime-order subgroup other than the identity
hash_to_point(bytes) == [p |-> 1 + ((2 * bytes + 1) % (Q - 1)), t |-> 0]

RECURSIVE WeightedSum(_, _)
WeightedSum(to_hash, i) ==
  IF i > Len(to_hash) THEN 0
  ELSE ((i + 1) * to_hash[i] + 3 * WeightedSum(to_hash, i + 1)) % Q

\* keccak256_to_scalar: a scalar that depends on every part of the transcript
keccak256_to_scalar(to_hash) == (1 + WeightedSum(to_hash, 1)) % Q

\* Commitment::new(mask, amount).calculate()
Calculate(commitment) ==
  PointAdd(Mul(commitment.mask, ED25519_BASEPOINT_POINT),
           Mul(commitment.amount, AmountGenerator))

\* The domain separation tags "CLSAG_agg_0", "CLSAG_agg_1" and "CLSAG_round"
DomainTag(name) == CASE name = "agg_0" -> 0 [] name = "agg_1" -> 1 [] name = "round" -> 2

\* seq[i] with i counted from zero
At(seq, i) == seq[i + 1]

RingKeys(ring) == [i \in 1 .. Len(ring) |-> Compress(ring[i][1])]
RingCommitments(ring) == [i \in 1 .. Len(ring) |-> Compress(ring[i][2])]

\* The core loop assigning c1 in every iteration
RECURSIVE CoreLoop_AssignsEach(_, _, _, _, _)
CoreLoop_AssignsEach(k, i, end, c, c1) ==
  IF i >= end THEN [c |-> c, c1 |-> c1, iterations |-> <<>>]
  ELSE
    LET j == i % k.n
        c_p == (k.mu_P * c) % Q
        c_c == (k.mu_C * c) % Q
        P == At(k.ring, j)[1]
        C == PointSub(At(k.ring, j)[2], k.pseudo_out)
        L == PointAdd(Mul(At(k.s, j), ED25519_BASEPOINT_POINT),
                      PointAdd(Mul(c_p, P), Mul(c_c, C)))
        PH == hash_to_point(Compress(P))
        R == PointAdd(Mul(c_p, k.I), PointAdd(Mul(c_c, k.D), Mul(At(k.s, j), PH)))
        next == keccak256_to_scalar(k.round \o <<Compress(L), Compress(R)>>)
        after == CoreLoop_AssignsEach(k, i + 1, end, next, next)
    IN  [after EXCEPT !.iterations =
           <<[i |-> j, c |-> c, next |-> next, assigns |-> TRUE]>> \o @]

\* The core loop for i in (start .. end).map(|i| i % n), from the challenge c; with
\* what each iteration did: its index, the challenge it was fed, the one it made, and
\* whether it assigned c1
RECURSIVE CoreLoop(_, _, _, _, _)
CoreLoop(k, i, end, c, c1) ==
  IF i >= end THEN [c |-> c, c1 |-> c1, iterations |-> <<>>]
  ELSE
    LET j == i % k.n
        c_p == (k.mu_P * c) % Q
        c_c == (k.mu_C * c) % Q
        P == At(k.ring, j)[1]
        C == PointSub(At(k.ring, j)[2], k.pseudo_out)
        L == PointAdd(Mul(At(k.s, j), ED25519_BASEPOINT_POINT),
                      PointAdd(Mul(c_p, P), Mul(c_c, C)))
        PH == hash_to_point(Compress(P))
        R == PointAdd(Mul(c_p, k.I), PointAdd(Mul(c_c, k.D), Mul(At(k.s, j), PH)))
        next == keccak256_to_scalar(k.round \o <<Compress(L), Compress(R)>>)
        after == CoreLoop(k, i + 1, end, next, IF j = k.n - 1 THEN next ELSE c1)
    IN  [after EXCEPT !.iterations =
           <<[i |-> j, c |-> c, next |-> next, assigns |-> j = k.n - 1]>> \o @]

\* core: ((D_INV_EIGHT, c * mu_P, c * mu_C), c1)
core(ring, I, pseudo_out, msg, D, s, A_c1) ==
  LET n == Len(ring)
      D_INV_EIGHT == Mul(INV_EIGHT, D)
      agg == RingKeys(ring) \o RingCommitments(ring)
               \o <<Compress(I), Compress(D_INV_EIGHT), Compress(pseudo_out)>>
      mu_P == keccak256_to_scalar(<<DomainTag("agg_0")>> \o agg)
      mu_C == keccak256_to_scalar(<<DomainTag("agg_1")>> \o agg)
      round == <<DomainTag("round")>> \o RingKeys(ring) \o RingCommitments(ring)
                 \o <<Compress(pseudo_out), msg>>
      k == [n |-> n, ring |-> ring, I |-> I, D |-> D, s |-> s, pseudo_out |-> pseudo_out,
            mu_P |-> mu_P, mu_C |-> mu_C, round |-> round]
      start == IF A_c1.mode = "Sign" THEN A_c1.r + 1 ELSE 0
      end == IF A_c1.mode = "Sign" THEN A_c1.r + n ELSE n
      c == IF A_c1.mode = "Sign"
           THEN keccak256_to_scalar(round \o <<Compress(A_c1.A), Compress(A_c1.AH)>>)
           ELSE A_c1.c1
      loop == CoreLoop(k, start, end, c, c)
  IN  [D |-> D_INV_EIGHT, c_p |-> (loop.c * mu_P) % Q, c_c |-> (loop.c * mu_C) % Q,
       c1 |-> loop.c1, c |-> c, iterations |-> loop.iterations]

\* Clsag::sign_core, with the scalars s as the rng yields them
sign_core(s, I, input, mask, msg, A, AH) ==
  LET r == input.signer_index
      pseudo_out == Calculate([mask |-> mask, amount |-> input.commitment.amount])
      mask_delta == (input.commitment.mask - mask + Q) % Q
      H == hash_to_point(Compress(At(input.ring, r)[1]))
      D == Mul(mask_delta, H)
      res == core(input.ring, I, pseudo_out, msg, D, s,
                  [mode |-> "Sign", r |-> r, A |-> A, AH |-> AH])
  IN  [incomplete_clsag |-> [D |-> res.D, s |-> s, c1 |-> res.c1],
       pseudo_out |-> pseudo_out,
       key_challenge |-> res.c_p,
       challenged_mask |-> (res.c_c * mask_delta) % Q]

\* Clsag::sign from input i on; rng[i] is what the rng yields for input i
RECURSIVE SignFrom(_, _, _, _, _, _)
SignFrom(rng, inputs, sum_outputs, msg, i, sum_pseudo_outs) ==
  IF i >= Len(inputs) THEN <<>>
  ELSE
    LET last == i = Len(inputs) - 1
        mask == IF last THEN (sum_outputs - sum_pseudo_outs + Q) % Q ELSE At(rng, i).mask
        nonce == At(rng, i).nonce
        input == At(inputs, i).input
        r == input.signer_index
        sc == sign_core(SubSeq(At(rng, i).s, 1, Len(input.ring)), At(inputs, i).image,
                        input, mask, msg,
                        Mul(nonce, ED25519_BASEPOINT_POINT),
                        Mul(nonce, hash_to_point(Compress(At(input.ring, r)[1]))))
        s_r == (nonce + Q * Q
                  - ((sc.key_challenge * At(inputs, i).key + sc.challenged_mask) % Q)) % Q
        clsag_i == [sc.incomplete_clsag EXCEPT !.s[r + 1] = s_r]
    IN  <<[clsag |-> clsag_i, pseudo_out |-> sc.pseudo_out]>>
          \o SignFrom(rng, inputs, sum_outputs, msg, i + 1,
                      IF last THEN sum_pseudo_outs ELSE (sum_pseudo_outs + mask) % Q)

\* Clsag::sign
sign(rng, inputs, sum_outputs, msg) == SignFrom(rng, inputs, sum_outputs, msg, 0, 0)

\* Clsag::verify without its check of the ring
verify_NoRingCheck(sig, ring, I, pseudo_out, msg) ==
  IF Len(ring) # Len(sig.s) THEN "InvalidS"
  ELSE IF is_identity(I) \/ ~is_torsion_free(I) THEN "InvalidImage"
  ELSE IF is_identity(mul_by_cofactor(sig.D)) THEN "InvalidD"
  ELSE IF core(ring, I, pseudo_out, msg, mul_by_cofactor(sig.D), sig.s,
               [mode |-> "Verify", c1 |-> sig.c1]).c1 # sig.c1
    THEN "InvalidC1"
  ELSE "Ok"

\* Clsag::verify: "Ok" or the error
verify(sig, ring, I, pseudo_out, msg) ==
  IF ring = <<>> THEN "InvalidRing"
  ELSE IF Len(ring) # Len(sig.s) THEN "InvalidS"
  ELSE IF is_identity(I) \/ ~is_torsion_free(I) THEN "InvalidImage"
  ELSE IF is_identity(mul_by_cofactor(sig.D)) THEN "InvalidD"
  ELSE IF core(ring, I, pseudo_out, msg, mul_by_cofactor(sig.D), sig.s,
               [mode |-> "Verify", c1 |-> sig.c1]).c1 # sig.c1
    THEN "InvalidC1"
  ELSE "Ok"

\* What is drawn for the inputs of sign
PrivateKeys == {1, 2}
CommitmentMasks == {1, 2}
SumOutputs == {1, 2, 3}
Nonces == {1, 2}
RandomScalars == {1, 3}
ClsagMessages == {0, 1}
DecoyMembers ==
  { <<[p |-> 3, t |-> 0], [p |-> 4, t |-> 0]>>, <<[p |-> 2, t |-> 1], [p |-> 1, t |-> 0]>> }

\* (private key, key image, ClsagInput) for a ring of n members with the signer at r
SignerInput(x, mask, n, r, decoy) ==
  LET commitment == [mask |-> mask, amount |-> 1]
      member == <<Mul(x, ED25519_BASEPOINT_POINT), Calculate(commitment)>>
  IN  [key |-> x,
       image |-> Mul(x, hash_to_point(Compress(member[1]))),
       input |-> [commitment |-> commitment,
                  ring |-> [i \in 1 .. n |-> IF i = r + 1 THEN member ELSE decoy],
                  signer_index |-> r]]

SignerInputs ==
  { SignerInput(x, mask, n, r, decoy) :
      x \in PrivateKeys, mask \in CommitmentMasks,
      n \in 1 .. MaxRing, r \in 0 .. MaxRing - 1, decoy \in DecoyMembers }

Rngs == [mask : {0}, nonce : Nonces, s : [1 .. MaxRing -> RandomScalars]]

EmptyClsag ==
  [inputs |-> <<>>, rng |-> <<>>, sum_outputs |-> 0, msg |-> 0,
   signed |-> None, given |-> None, tampered |-> FALSE, result |-> None]

\* Inputs that pass ClsagInput::new, and what the rng is going to yield
InitClsag ==
  \E inputs \in [1 .. NumInputs -> SignerInputs], rng \in [1 .. NumInputs -> Rngs],
     sum_outputs \in SumOutputs, msg \in ClsagMessages :
    /\ \A i \in 1 .. NumInputs : inputs[i].input.signer_index < Len(inputs[i].input.ring)
    /\ clsag = [EmptyClsag EXCEPT !.inputs = inputs, !.rng = rng,
                                  !.sum_outputs = sum_outputs, !.msg = msg]

IdleClsag == clsag = EmptyClsag

\* Clsag::sign
ClsagSign ==
  /\ clsag.inputs # <<>>
  /\ clsag.signed = None
  /\ clsag' = [clsag EXCEPT
                 !.signed = Some(sign(clsag.rng, clsag.inputs, clsag.sum_outputs, clsag.msg))]
  /\ UNCHANGED <<signersVars, substrateVars, intentVars, reportVars, codecVars, laterVars>>

\* What verify is given for input i: the signature and pseudo-out sign returned for it,
\* its ring and key image, and the message
Returned(i) ==
  [sig |-> At(Unwrap(clsag.signed), i).clsag,
   ring |-> At(clsag.inputs, i).input.ring,
   I |-> At(clsag.inputs, i).image,
   pseudo_out |-> At(Unwrap(clsag.signed), i).pseudo_out,
   msg |-> clsag.msg]

Tamperings ==
  [s : {"same", "short", "long", "changed"}, c1 : {"same", "changed"},
   D : {"same", "identity", "torsion"}, I : {"same", "identity", "torsioned"},
   ring : {"same", "empty"}]
    \ {[s |-> "same", c1 |-> "same", D |-> "same", I |-> "same", ring |-> "same"]}

Tampered(g, how) ==
  [g EXCEPT
     !.sig.s = CASE how.s = "same" -> @
                 [] how.s = "short" -> SubSeq(@, 1, Len(@) - 1)
                 [] how.s = "long" -> Append(@, 0)
                 [] how.s = "changed" -> [@ EXCEPT ![1] = (@ + 1) % Q],
     !.sig.c1 = IF how.c1 = "same" THEN @ ELSE (@ + 1) % Q,
     !.sig.D = CASE how.D = "same" -> @
                 [] how.D = "identity" -> Identity
                 [] how.D = "torsion" -> [p |-> 0, t |-> 1],
     !.I = CASE how.I = "same" -> @
             [] how.I = "identity" -> Identity
             [] how.I = "torsioned" -> [@ EXCEPT !.t = 1],
     !.ring = IF how.ring = "same" THEN @ ELSE <<>>]

\* Someone else's signature, ring or key image is put in the place of what sign returned
ClsagTamper(i, how) ==
  /\ clsag.signed # None
  /\ clsag.given = None
  /\ clsag' = [clsag EXCEPT !.given = Some(Tampered(Returned(i), how)), !.tampered = TRUE]
  /\ UNCHANGED <<signersVars, substrateVars, intentVars, reportVars, codecVars, laterVars>>

\* Clsag::verify
ClsagVerify(i) ==
  /\ clsag.signed # None
  /\ clsag.result = None
  /\ LET g == IF clsag.given = None THEN Returned(i) ELSE Unwrap(clsag.given)
     IN  clsag' = [clsag EXCEPT
                     !.given = Some(g),
                     !.result = Some(verify(g.sig, g.ring, g.I, g.pseudo_out, g.msg))]
  /\ UNCHANGED <<signersVars, substrateVars, intentVars, reportVars, codecVars, laterVars>>

NextClsag ==
  \/ ClsagSign
  \/ \E i \in 0 .. NumInputs - 1, how \in Tamperings : ClsagTamper(i, how)
  \/ \E i \in 0 .. NumInputs - 1 : ClsagVerify(i)

----------------------------------------------------------------------------
(* ClsagInput::new (coins/monero/ringct/clsag/src/lib.rs)                   *)

U8_MAX == 255

\* ClsagInput::new: "Ok" with the input, or the error
ClsagInputNew(commitment, decoys) ==
  LET n == Len(decoys.ring)
  IN  IF n > U8_MAX THEN [result |-> "InvalidRing", input |-> None]
      ELSE IF decoys.signer_index >= n
        THEN [result |-> "InvalidRingMember", input |-> None]
      ELSE IF At(decoys.ring, decoys.signer_index)[2] # Calculate(commitment)
        THEN [result |-> "InvalidCommitment", input |-> None]
      ELSE [result |-> "Ok", input |-> Some([commitment |-> commitment, decoys |-> decoys])]

\* The ring lengths and signer indexes drawn: the least and the greatest, and next to them
RingLens == {0, 1, 2, U8_MAX, U8_MAX + 1}
SignerIndexes == {0, 1, 2, U8_MAX - 1, U8_MAX}

\* A ring of n members with the commitment's point at one place and a decoy elsewhere
RingWith(n, place, commitment, decoy) ==
  [i \in 1 .. n |->
     IF i = place THEN <<ED25519_BASEPOINT_POINT, Calculate(commitment)>> ELSE decoy]

IdleCinput == cinput = [commitment |-> None, decoys |-> None, returned |-> None]

\* Any commitment and any Decoys
InitCinput ==
  \E n \in RingLens, r \in SignerIndexes, place \in {1, 2, U8_MAX},
     mask \in CommitmentMasks, decoy \in DecoyMembers :
    LET commitment == [mask |-> mask, amount |-> 1]
    IN  cinput = [commitment |-> Some(commitment),
                  decoys |-> Some([ring |-> RingWith(n, place, commitment, decoy),
                                   signer_index |-> r]),
                  returned |-> None]

\* ClsagInput::new
NewClsagInput ==
  /\ cinput.commitment # None
  /\ cinput.returned = None
  /\ cinput' = [cinput EXCEPT
                  !.returned = Some(ClsagInputNew(Unwrap(cinput.commitment),
                                                  Unwrap(cinput.decoys)))]
  /\ UNCHANGED <<firstVars, wire, provided, cdb, router>>

NextCinput == NewClsagInput

----------------------------------------------------------------------------
(* The wire form of a CLSAG (coins/monero/ringct/clsag/src/lib.rs)          *)

\* The number 32 bytes stand for, little-endian
RECURSIVE ReadLe(_)
ReadLe(bytes) == IF bytes = <<>> THEN 0 ELSE bytes[1] + 256 * ReadLe(Tail(bytes))

\* write_scalar: the 32 bytes of a scalar
write_scalar(k) == LeBytes(k, 32)
\* write_point: the 32 bytes of a compressed point
write_point(A) == LeBytes(Compress(A), 32)

\* write_raw_vec: the items one after another, with no length before them
RECURSIVE write_raw_vec(_)
write_raw_vec(scalars) ==
  IF scalars = <<>> THEN <<>>
  ELSE write_scalar(scalars[1]) \o write_raw_vec(Tail(scalars))

\* read_scalar: the scalar of the next 32 bytes, refused unless reduced
read_scalar(r) ==
  IF Len(r) < 32 THEN Err(r)
  ELSE IF ReadLe(SubSeq(r, 1, 32)) >= Q THEN Err(SubSeq(r, 33, Len(r)))
  ELSE Ok(ReadLe(SubSeq(r, 1, 32)), SubSeq(r, 33, Len(r)))

\* read_point: the point of the next 32 bytes, refused unless they are a point's bytes
read_point(r) ==
  IF Len(r) < 32 THEN Err(r)
  ELSE
    LET v == ReadLe(SubSeq(r, 1, 32))
    IN  IF v >= Q * COFACTOR THEN Err(SubSeq(r, 33, Len(r)))
        ELSE Ok([p |-> v \div COFACTOR, t |-> v % COFACTOR], SubSeq(r, 33, Len(r)))

\* read_raw_vec: len scalars
RECURSIVE read_raw_vec(_, _)
read_raw_vec(len, r) ==
  IF len = 0 THEN Ok(<<>>, r)
  ELSE
    LET first == read_scalar(r)
    IN  IF ~first.ok THEN Err(first.rest)
        ELSE LET others == read_raw_vec(len - 1, first.rest)
             IN  IF ~others.ok THEN Err(others.rest)
                 ELSE Ok(<<Unwrap(first.value)>> \o Unwrap(others.value), others.rest)

\* Clsag::fee_weight
fee_weight(ring_len) == (ring_len * 32) + 32 + 32

\* Clsag::write with D before c1
ClsagWrite_DFirst(sig) == write_raw_vec(sig.s) \o write_point(sig.D) \o write_scalar(sig.c1)

\* Clsag::write
ClsagWrite(sig) == write_raw_vec(sig.s) \o write_scalar(sig.c1) \o write_point(sig.D)

\* Clsag::read
ClsagRead(decoys, r) ==
  LET s_read == read_raw_vec(decoys, r)
  IN  IF ~s_read.ok THEN Err(s_read.rest)
      ELSE
        LET c1_read == read_scalar(s_read.rest)
        IN  IF ~c1_read.ok THEN Err(c1_read.rest)
            ELSE
              LET D_read == read_point(c1_read.rest)
              IN  IF ~D_read.ok THEN Err(D_read.rest)
                  ELSE Ok([D |-> Unwrap(D_read.value), s |-> Unwrap(s_read.value),
                           c1 |-> Unwrap(c1_read.value)], D_read.rest)

WirePoints == {Identity, [p |-> 3, t |-> 0], [p |-> 4, t |-> 7], [p |-> 0, t |-> 1]}

EmptyWire == [sig |-> None, bytes |-> None, decoys |-> None, read |-> None]

\* Any Clsag of up to MaxRing scalars
InitWire ==
  \E n \in 0 .. MaxRing, D \in WirePoints, c1 \in Scalars :
    \E sc \in [1 .. n -> Scalars] :
      wire = [EmptyWire EXCEPT !.sig = Some([D |-> D, s |-> sc, c1 |-> c1])]

\* Clsag::write to an empty buffer
WireWrite ==
  /\ wire.sig # None
  /\ wire.bytes = None
  /\ wire' = [wire EXCEPT !.bytes = Some(ClsagWrite(Unwrap(wire.sig)))]
  /\ UNCHANGED <<firstVars, cinput, provided, cdb, router>>

\* Clsag::read of what was written, for a ring of decoys members
WireRead(decoys) ==
  /\ wire.bytes # None
  /\ wire.read = None
  /\ wire' = [wire EXCEPT !.decoys = Some(decoys),
                          !.read = Some(ClsagRead(decoys, Unwrap(wire.bytes)))]
  /\ UNCHANGED <<firstVars, cinput, provided, cdb, router>>

NextWire ==
  \/ WireWrite
  \/ \E decoys \in 0 .. MaxRing + 1 : WireRead(decoys)

----------------------------------------------------------------------------
(* Provided transactions (coordinator/tributary/src/provided.rs)            *)

NumProvided == 3

\* The transactions a caller may hand over. A transaction's hash stands for its 32 bytes
\* and determines the transaction, so also its kind and whether verify_transaction
\* accepts it.
ProvidedTxs ==
  {[hash |-> h, kind |-> "Provided", valid |-> TRUE] : h \in 1 .. NumProvided}
    \cup {[hash |-> NumProvided + 1, kind |-> "Provided", valid |-> FALSE],
          [hash |-> NumProvided + 2, kind |-> "Unsigned", valid |-> TRUE],
          [hash |-> NumProvided + 3, kind |-> "Signed", valid |-> TRUE]}

\* The rows under transaction_key and current_provided_key, the queue in memory, and
\* the last provide call with the state it started from; for the properties, the
\* hashes provided with Ok in the order of the calls (order), the hashes completed
\* in the order of the calls (done), and whether the process runs (up)
EmptyProvided ==
  [transaction |-> {}, current |-> <<>>, transactions |-> <<>>, ever |-> {}, returned |-> None,
   order |-> <<>>, done |-> <<>>, up |-> TRUE]

\* The transaction stored under transaction_key(hash)
StoredTx(hash) == CHOOSE tx \in provided.transaction : tx.hash = hash

\* ProvidedTransactions::new: the queue is read back from the stored list
ProvidedNew ==
  /\ provided' = [provided EXCEPT
       !.transactions = [i \in 1 .. Len(provided.current) |-> StoredTx(provided.current[i])],
       !.returned = None,
       !.up = TRUE]
  /\ UNCHANGED <<firstVars, cinput, wire, cdb, router>>

\* What provide decides, looking for an earlier hash in the stored list only
provide_result_CurrentOnly(tx) ==
  IF tx.kind # "Provided" THEN "NotProvided"
  ELSE IF ~tx.valid THEN "InvalidProvided"
  ELSE IF \E i \in 1 .. Len(provided.current) : provided.current[i] = tx.hash
    THEN "AlreadyProvided"
  ELSE "Ok"

\* What provide decides
provide_result(tx) ==
  IF tx.kind # "Provided" THEN "NotProvided"
  ELSE IF ~tx.valid THEN "InvalidProvided"
  ELSE IF \E stored \in provided.transaction : stored.hash = tx.hash THEN "AlreadyProvided"
  ELSE "Ok"

\* ProvidedTransactions::provide
provide(tx) ==
  LET result == provide_result(tx)
      started == [tx |-> tx, result |-> result,
               transactions |-> provided.transactions, current |-> provided.current,
               ever |-> provided.ever]
  IN  /\ provided.up
      /\ provided' =
           IF result = "Ok"
             THEN [provided EXCEPT
                     !.transaction = @ \cup {tx},
                     !.current = Append(@, tx.hash),
                     !.transactions = Append(@, tx),
                     !.ever = @ \cup {tx.hash},
                     !.returned = Some(started),
                     !.order = Append(@, tx.hash)]
             ELSE [provided EXCEPT !.returned = Some(started)]
      /\ UNCHANGED <<firstVars, cinput, wire, cdb, router>>

\* Assertions that accept the hash of any transaction of the queue
complete_asserts_AnyQueued(hash) ==
  /\ \E i \in 1 .. Len(provided.transactions) : provided.transactions[i].hash = hash
  /\ provided.current # <<>>

\* complete: pop_front().unwrap() and the two assert_eq!
complete_asserts(hash) ==
  /\ provided.transactions # <<>>
  /\ Head(provided.transactions).hash = hash
  /\ provided.current # <<>>
  /\ Head(provided.current) = hash

\* ProvidedTransactions::complete, with the commit of the block's transaction. A
\* failed unwrap or assertion aborts the process: the transaction is dropped and the
\* queue in memory is lost.
complete(hash) ==
  /\ provided.up
  /\ provided' =
       IF complete_asserts(hash)
         THEN [provided EXCEPT !.transactions = Tail(@), !.current = Tail(@),
                               !.returned = None, !.done = Append(@, hash)]
         ELSE [provided EXCEPT !.transactions = <<>>, !.returned = None, !.up = FALSE]
  /\ UNCHANGED <<firstVars, cinput, wire, cdb, router>>

NextProvided ==
  \/ ProvidedNew
  \/ \E tx \in ProvidedTxs : provide(tx)
  \/ \E hash \in 1 .. NumProvided : complete(hash)

----------------------------------------------------------------------------
(* The coordinator's Keys and SlashReports (coordinator/substrate/src/lib.rs) *)

MaxSetSession == 2
NumKeyPairs == 2

SetSessions == 0 .. MaxSetSession
KeyPairs == 1 .. NumKeyPairs

\* The slashes a caller may report: try_into accepts some and refuses others
SlashLists ==
  {[id |-> 1, valid |-> TRUE], [id |-> 2, valid |-> TRUE], [id |-> 3, valid |-> FALSE]}

\* slashes.try_into(): the report of the slashes, if they make one
SlashesTryInto(slashes) == IF slashes.valid THEN Some(slashes.id) ELSE None

\* SeraiValidatorSets::set_keys(..).encode() and report_slashes(..).encode()
set_keys(network, key_pair) == <<"set_keys", network, key_pair>>
report_slashes(network, slash_report) == <<"report_slashes", network, slash_report>>

\* Keys: (network) -> (Session, Vec<u8>), SlashReports: (network) -> (Session, Vec<u8>)
EmptyCdb == [keys |-> [n \in Networks |-> None], slash_reports |-> [n \in Networks |-> None],
             last |-> None]

\* The session of a stored row
RowSession(row) == Unwrap(row)[1]

\* Keys::set replacing the keys of the stored session too
KeysSet_SameSession(network, session, key_pair) ==
  LET existing == cdb.keys[network]
      started == [fn |-> "Keys::set", network |-> network, session |-> session,
                  tx |-> set_keys(network, key_pair), existing |-> existing, result |-> "Ok"]
  IN  /\ cdb' =
           IF existing # None /\ RowSession(existing) > session
             THEN [cdb EXCEPT !.last = Some(started)]
             ELSE [cdb EXCEPT !.keys[network] = Some(<<session, set_keys(network, key_pair)>>),
                              !.last = Some(started)]
      /\ UNCHANGED <<firstVars, cinput, wire, provided, router>>

\* Keys::set, with the commit of the caller's transaction
KeysSet(network, session, key_pair) ==
  LET existing == cdb.keys[network]
      started == [fn |-> "Keys::set", network |-> network, session |-> session,
                  tx |-> set_keys(network, key_pair), existing |-> existing, result |-> "Ok"]
  IN  /\ cdb' =
           IF existing # None /\ RowSession(existing) >= session
             THEN [cdb EXCEPT !.last = Some(started)]
             ELSE [cdb EXCEPT !.keys[network] = Some(<<session, set_keys(network, key_pair)>>),
                              !.last = Some(started)]
      /\ UNCHANGED <<firstVars, cinput, wire, provided, router>>

\* Keys::take
KeysTake(network) ==
  /\ cdb' = [cdb EXCEPT !.keys[network] = None,
                        !.last = Some([fn |-> "Keys::take", network |-> network,
                                       existing |-> cdb.keys[network]])]
  /\ UNCHANGED <<firstVars, cinput, wire, provided, router>>

\* SlashReports::set, with the commit of the caller's transaction
SlashReportsSet(network, session, slashes) ==
  LET existing == cdb.slash_reports[network]
      started == [fn |-> "SlashReports::set", network |-> network, session |-> session,
                  slashes |-> slashes, existing |-> existing, result |-> ""]
  IN  /\ cdb' =
           IF existing # None /\ RowSession(existing) >= session
             THEN [cdb EXCEPT !.last = Some([started EXCEPT !.result = "Ok"])]
           ELSE IF SlashesTryInto(slashes) = None
             THEN [cdb EXCEPT !.last = Some([started EXCEPT !.result = "InvalidSlashReport"])]
           ELSE [cdb EXCEPT
                   !.slash_reports[network] =
                     Some(<<session, report_slashes(network, Unwrap(SlashesTryInto(slashes)))>>),
                   !.last = Some([started EXCEPT !.result = "Ok"])]
      /\ UNCHANGED <<firstVars, cinput, wire, provided, router>>

\* SlashReports::take
SlashReportsTake(network) ==
  /\ cdb' = [cdb EXCEPT !.slash_reports[network] = None,
                        !.last = Some([fn |-> "SlashReports::take", network |-> network,
                                       existing |-> cdb.slash_reports[network]])]
  /\ UNCHANGED <<firstVars, cinput, wire, provided, router>>

NextKeys ==
  \/ \E network \in Networks, session \in SetSessions, key_pair \in KeyPairs :
       KeysSet(network, session, key_pair)
  \/ \E network \in Networks : KeysTake(network)

NextSlashReports ==
  \/ \E network \in Networks, session \in SetSessions, slashes \in SlashLists :
       SlashReportsSet(network, session, slashes)
  \/ \E network \in Networks : SlashReportsTake(network)

----------------------------------------------------------------------------
(* The Ethereum Router, as its tests (processor/ethereum/router/src/tests/mod.rs) *)
(* drive it and mirror its state                                              *)

NumRouterKeys == 2
MaxNonce == 4

\* [0; 32]: the key no public key has
ZeroKey == 0
RouterKeys == 1 .. NumRouterKeys

\* [0; 20], an address holding no code, and two contracts
EscapeAddresses == {"zero", "empty", "contract_a", "contract_b"}

\* A signature: who signed, the nonce in the signed message, and whether the signed
\* message is the call's message and the signature bytes arrived unchanged
Signatures == [signer : RouterKeys, nonce : 0 .. MaxNonce, intact : BOOLEAN]

\* RouterState, before the deployment
EmptyRouter ==
  [deployed |-> FALSE, key |-> None, next_key |-> None, next_nonce |-> 0, escaped_to |-> None,
   last |-> None]

\* RouterState: what verify_state reads from the contract
RouterState ==
  [key |-> router.key, next_key |-> router.next_key, next_nonce |-> router.next_nonce,
   escaped_to |-> router.escaped_to]

\* A call that returned, with the events of its block and the state it leaves
Returns(fn, arg, sig, result, events, state) ==
  router' = [deployed |-> TRUE, key |-> state.key, next_key |-> state.next_key,
             next_nonce |-> state.next_nonce, escaped_to |-> state.escaped_to,
             last |-> Some([fn |-> fn, arg |-> arg, sig |-> sig, result |-> result,
                            events |-> events, before |-> RouterState])]

\* A call that reverted
Reverts(fn, arg, sig, error) == Returns(fn, arg, sig, error, <<>>, RouterState)

\* The state after a signed call used two nonces
NonceUsed_Twice(state) == [state EXCEPT !.next_nonce = @ + 2]

\* self.state.next_nonce += 1
NonceUsed(state) == [state EXCEPT !.next_nonce = @ + 1]

\* Whether the signature is one of key over the call's message with the next nonce
Verifies(key, sig) == sig.signer = key /\ sig.nonce = router.next_nonce /\ sig.intact

\* The Router's check of a signed call
verifySignature(key, sig) ==
  IF router.escaped_to # None THEN "EscapeHatchInvoked"
  ELSE IF key = None THEN "SeraiKeyWasNone"
  ELSE IF ~Verifies(Unwrap(key), sig) THEN "InvalidSignature"
  ELSE "Ok"

\* Test::new: the deployment, which sets the next key with nonce 0
Deploy(public_key) ==
  /\ ~router.deployed
  /\ Returns("constructor", Some(public_key), None, "Ok",
             <<[event |-> "NextSeraiKeySet", nonce |-> 0, key |-> public_key]>>,
             [key |-> None, next_key |-> Some(public_key), next_nonce |-> 1,
              escaped_to |-> None])
  /\ UNCHANGED <<firstVars, cinput, wire, provided, cdb>>

\* confirmNextSeraiKey
confirm_next_serai_key(sig) ==
  LET checked == verifySignature(router.next_key, sig)
  IN  /\ router.deployed
      /\ router.next_nonce < MaxNonce
      /\ IF checked # "Ok" THEN Reverts("confirm_next_serai_key", None, Some(sig), checked)
         ELSE Returns("confirm_next_serai_key", None, Some(sig), "Ok",
                      <<[event |-> "SeraiKeyUpdated", nonce |-> router.next_nonce,
                         key |-> Unwrap(router.next_key)]>>,
                      [NonceUsed(RouterState) EXCEPT !.key = router.next_key,
                                                     !.next_key = None])
      /\ UNCHANGED <<firstVars, cinput, wire, provided, cdb>>

\* updateSeraiKey making the new key the key at once
update_serai_key_AtOnce(next_key, sig) ==
  LET checked == verifySignature(router.key, sig)
  IN  /\ router.deployed
      /\ router.next_nonce < MaxNonce
      /\ IF checked # "Ok"
           THEN Reverts("update_serai_key", Some(next_key), Some(sig), checked)
         ELSE IF next_key = ZeroKey
           THEN Reverts("update_serai_key", Some(next_key), Some(sig), "InvalidSeraiKey")
         ELSE Returns("update_serai_key", Some(next_key), Some(sig), "Ok",
                      <<[event |-> "NextSeraiKeySet", nonce |-> router.next_nonce,
                         key |-> next_key]>>,
                      [NonceUsed(RouterState) EXCEPT !.key = Some(next_key)])
      /\ UNCHANGED <<firstVars, cinput, wire, provided, cdb>>

\* updateSeraiKey
update_serai_key(next_key, sig) ==
  LET checked == verifySignature(router.key, sig)
  IN  /\ router.deployed
      /\ router.next_nonce < MaxNonce
      /\ IF checked # "Ok"
           THEN Reverts("update_serai_key", Some(next_key), Some(sig), checked)
         ELSE IF next_key = ZeroKey
           THEN Reverts("update_serai_key", Some(next_key), Some(sig), "InvalidSeraiKey")
         ELSE Returns("update_serai_key", Some(next_key), Some(sig), "Ok",
                      <<[event |-> "NextSeraiKeySet", nonce |-> router.next_nonce,
                         key |-> next_key]>>,
                      [NonceUsed(RouterState) EXCEPT !.next_key = Some(next_key)])
      /\ UNCHANGED <<firstVars, cinput, wire, provided, cdb>>

\* inInstruction with no look at the key
in_instruction_NoKey(value_matches) ==
  /\ router.deployed
  /\ IF router.escaped_to # None
       THEN Reverts("in_instruction", Some(value_matches), None, "EscapeHatchInvoked")
     ELSE IF ~value_matches
       THEN Reverts("in_instruction", Some(value_matches), None, "AmountMismatchesMsgValue")
     ELSE Returns("in_instruction", Some(value_matches), None, "Ok",
                  <<[event |-> "InInstruction"]>>, RouterState)
  /\ UNCHANGED <<firstVars, cinput, wire, provided, cdb>>

\* inInstruction, for ether worth the amount or not
in_instruction(value_matches) ==
  /\ router.deployed
  /\ IF router.key = None
       THEN Reverts("in_instruction", Some(value_matches), None, "SeraiKeyWasNone")
     ELSE IF router.escaped_to # None
       THEN Reverts("in_instruction", Some(value_matches), None, "EscapeHatchInvoked")
     ELSE IF ~value_matches
       THEN Reverts("in_instruction", Some(value_matches), None, "AmountMismatchesMsgValue")
     ELSE Returns("in_instruction", Some(value_matches), None, "Ok",
                  <<[event |-> "InInstruction"]>>, RouterState)
  /\ UNCHANGED <<firstVars, cinput, wire, provided, cdb>>

\* execute, of a batch of out instructions
execute(sig) ==
  LET checked == verifySignature(router.key, sig)
  IN  /\ router.deployed
      /\ router.next_nonce < MaxNonce
      /\ IF checked # "Ok" THEN Reverts("execute", None, Some(sig), checked)
         ELSE Returns("execute", None, Some(sig), "Ok",
                      <<[event |-> "Batch", nonce |-> router.next_nonce]>>,
                      NonceUsed(RouterState))
      /\ UNCHANGED <<firstVars, cinput, wire, provided, cdb>>

\* escapeHatch accepted again after it was invoked
escape_hatch_Again(escape_to, sig) ==
  LET checked == IF ~Verifies(Unwrap(router.key), sig) THEN "InvalidSignature" ELSE "Ok"
  IN  /\ router.deployed
      /\ router.key # None
      /\ router.next_nonce < MaxNonce
      /\ IF checked # "Ok" THEN Reverts("escape_hatch", Some(escape_to), Some(sig), checked)
         ELSE IF escape_to = "zero"
           THEN Reverts("escape_hatch", Some(escape_to), Some(sig), "InvalidEscapeAddress")
         ELSE IF escape_to = "empty"
           THEN Reverts("escape_hatch", Some(escape_to), Some(sig),
                        "EscapeAddressWasNotAContract")
         ELSE Returns("escape_hatch", Some(escape_to), Some(sig), "Ok",
                      <<[event |-> "EscapeHatch", nonce |-> router.next_nonce,
                         escape_to |-> escape_to]>>,
                      [NonceUsed(RouterState) EXCEPT !.escaped_to = Some(escape_to)])
      /\ UNCHANGED <<firstVars, cinput, wire, provided, cdb>>

\* escapeHatch
escape_hatch(escape_to, sig) ==
  LET checked == verifySignature(router.key, sig)
  IN  /\ router.deployed
      /\ router.next_nonce < MaxNonce
      /\ IF checked # "Ok" THEN Reverts("escape_hatch", Some(escape_to), Some(sig), checked)
         ELSE IF escape_to = "zero"
           THEN Reverts("escape_hatch", Some(escape_to), Some(sig), "InvalidEscapeAddress")
         ELSE IF escape_to = "empty"
           THEN Reverts("escape_hatch", Some(escape_to), Some(sig),
                        "EscapeAddressWasNotAContract")
         ELSE Returns("escape_hatch", Some(escape_to), Some(sig), "Ok",
                      <<[event |-> "EscapeHatch", nonce |-> router.next_nonce,
                         escape_to |-> escape_to]>>,
                      [NonceUsed(RouterState) EXCEPT !.escaped_to = Some(escape_to)])
      /\ UNCHANGED <<firstVars, cinput, wire, provided, cdb>>

\* escape: the Router's coins leave for the address escaped to
escape ==
  /\ router.deployed
  /\ IF router.escaped_to = None THEN Reverts("escape", None, None, "EscapeHatchNotInvoked")
     ELSE Returns("escape", None, None, "Ok", <<[event |-> "Escaped"]>>, RouterState)
  /\ UNCHANGED <<firstVars, cinput, wire, provided, cdb>>

NextRouter ==
  \/ \E public_key \in RouterKeys : Deploy(public_key)
  \/ \E sig \in Signatures : confirm_next_serai_key(sig)
  \/ \E next_key \in {ZeroKey} \cup RouterKeys, sig \in Signatures :
       update_serai_key(next_key, sig)
  \/ \E value_matches \in BOOLEAN : in_instruction(value_matches)
  \/ \E sig \in Signatures : execute(sig)
  \/ \E escape_to \in EscapeAddresses, sig \in Signatures : escape_hatch(escape_to, sig)
  \/ escape

----------------------------------------------------------------------------
(* The blob of a session's key shares (processor/signers/src/lib.rs)        *)

MaxPairs == 2

\* The bytes a share's curve is named by, and the width of what follows them
CurveTag(curve) == IF curve = "Ristretto" THEN <<82>> ELSE <<69, 120>>
ShareLen(curve) == IF curve = "Ristretto" THEN 1 ELSE 2

\* ThresholdKeys::serialize: the curve, then the share
ThresholdKeysSerialize(keys) == CurveTag(keys.curve) \o LeBytes(keys.i, ShareLen(keys.curve))

\* ThresholdCore::<C>::read: the share of curve C at the front of buf, if there is one
ThresholdCoreRead(curve, buf) ==
  LET tag == CurveTag(curve)
      len == Len(tag) + ShareLen(curve)
  IN  IF Len(buf) < len \/ SubSeq(buf, 1, Len(tag)) # tag THEN Err(buf)
      ELSE Ok(ThresholdKeys(curve, ReadLe(SubSeq(buf, Len(tag) + 1, len))),
              SubSeq(buf, len + 1, Len(buf)))

\* buf.extend(&*keys.serialize()) for each share of the blob
RECURSIVE ExtendAll(_)
ExtendAll(shares) ==
  IF shares = <<>> THEN <<>>
  ELSE ThresholdKeysSerialize(Head(shares)) \o ExtendAll(Tail(shares))

\* The bytes register_keys stores under SerializedKeys[session]
SerializedKeysBlob(substrate_keys, network_keys) ==
  ExtendAll(SerializeKeys(substrate_keys, network_keys))

\* The loop of Signers::new over the blob: `while !buf.is_empty()`, with each unwrap
RECURSIVE ReadSerializedKeys(_, _, _)
ReadSerializedKeys(buf, substrate_keys, external_keys) ==
  IF buf = <<>>
    THEN [panicked |-> FALSE, substrate_keys |-> substrate_keys,
          external_keys |-> external_keys, buf |-> buf]
  ELSE
    LET substrate == ThresholdCoreRead("Ristretto", buf)
    IN  IF ~substrate.ok
          THEN [panicked |-> TRUE, substrate_keys |-> substrate_keys,
                external_keys |-> external_keys, buf |-> buf]
        ELSE
          LET external == ThresholdCoreRead("External", substrate.rest)
          IN  IF ~external.ok
                THEN [panicked |-> TRUE,
                      substrate_keys |-> Append(substrate_keys, Unwrap(substrate.value)),
                      external_keys |-> external_keys, buf |-> substrate.rest]
              ELSE ReadSerializedKeys(external.rest,
                                      Append(substrate_keys, Unwrap(substrate.value)),
                                      Append(external_keys, Unwrap(external.value)))

\* The shares of a curve a caller may register, up to MaxPairs of them
ShareLists(curve) ==
  UNION {[1 .. k -> {ThresholdKeys(curve, i) : i \in 1 .. MaxPairs + 1}] : k \in 0 .. MaxPairs}

EmptyKeyblob == [substrate_keys |-> None, network_keys |-> None, blob |-> None, read |-> None]

InitKeyblob ==
  \E substrate_keys \in ShareLists("Ristretto"), network_keys \in ShareLists("External") :
    keyblob = [EmptyKeyblob EXCEPT !.substrate_keys = Some(substrate_keys),
                                   !.network_keys = Some(network_keys)]

\* register_keys stores the blob
KeyblobRegister ==
  /\ keyblob.substrate_keys # None
  /\ keyblob.blob = None
  /\ keyblob' = [keyblob EXCEPT !.blob =
       Some(SerializedKeysBlob(Unwrap(keyblob.substrate_keys), Unwrap(keyblob.network_keys)))]
  /\ UNCHANGED <<priorVars, ring_loop, mq, scandb, cursor>>

\* Signers::new reads the blob back
KeyblobBoot ==
  /\ keyblob.blob # None
  /\ keyblob.read = None
  /\ keyblob' = [keyblob EXCEPT !.read =
       Some(ReadSerializedKeys(Unwrap(keyblob.blob), <<>>, <<>>))]
  /\ UNCHANGED <<priorVars, ring_loop, mq, scandb, cursor>>

NextKeyblob == KeyblobRegister \/ KeyblobBoot

----------------------------------------------------------------------------
(* Runs of the CLSAG core loop (coins/monero/ringct/clsag/src/lib.rs)       *)

MaxLoopRing == 3

\* A ring of n members from their keys, with the commitment of member i to amount i
LoopRing(keys) ==
  [i \in 1 .. Len(keys) |->
     <<Mul(keys[i], ED25519_BASEPOINT_POINT), Calculate([mask |-> keys[i], amount |-> i])>>]

\* Mode::Sign(r, A, AH) for the nonce 1, and Mode::Verify(c1)
LoopModes(ring) ==
  {[mode |-> "Sign", r |-> r, A |-> ED25519_BASEPOINT_POINT,
    AH |-> hash_to_point(Compress(At(ring, r)[1]))] : r \in 0 .. Len(ring) - 1}
    \cup {[mode |-> "Verify", c1 |-> c1] : c1 \in {1, 2}}

EmptyLoop == [ring |-> None, s |-> None, A_c1 |-> None, returned |-> None]

InitLoop ==
  \E n \in 1 .. MaxLoopRing :
    \E keys \in [1 .. n -> {1, 2}], s \in [1 .. n -> {1, 3}] :
      \E A_c1 \in LoopModes(LoopRing(keys)) :
        ring_loop = [EmptyLoop EXCEPT !.ring = Some(LoopRing(keys)), !.s = Some(s),
                                      !.A_c1 = Some(A_c1)]

\* core, for the key image and D of the first member's key
RunCore ==
  /\ ring_loop.ring # None
  /\ ring_loop.returned = None
  /\ ring_loop' = [ring_loop EXCEPT !.returned =
       Some(core(Unwrap(ring_loop.ring),
                 hash_to_point(Compress(Unwrap(ring_loop.ring)[1][1])),
                 Calculate([mask |-> 1, amount |-> 1]), 1,
                 hash_to_point(Compress(Unwrap(ring_loop.ring)[1][1])),
                 Unwrap(ring_loop.s), Unwrap(ring_loop.A_c1)))]
  /\ UNCHANGED <<priorVars, keyblob, mq, scandb, cursor>>

NextLoop == RunCore

----------------------------------------------------------------------------
(* ToCosign written with block numbers that never decrease: the same block number
   may come again, with the same or with another block hash *)

SetToCosignNoDecrease(session, cosign) ==
  /\ pc = "up"
  /\ db.ToCosign[session] = None => Stored(txn) < MaxStored
  /\ IF db.ToCosign[session] = None THEN TRUE
     ELSE Unwrap(db.ToCosign[session]).block_number <= cosign.block_number
  /\ db' = [db EXCEPT !.ToCosign[session] = Some(cosign)]
  /\ txn' = [txn EXCEPT !.ToCosign[session] = Some(cosign)]
  /\ call' = Call("set_to_cosign", session, cosign, "ok", {})
  /\ UNCHANGED <<pc, tasks, cosignVars, otherVars>>

----------------------------------------------------------------------------
(* The report task over the blocks of the scanner: processor/scanner/src/report.rs,
   report/db.rs and scan/db.rs. The scan task, which is not among the sources,
   moves next_to_scan_for_outputs_block one block at a time and decides whether the
   block is notable and what was received in it. *)

\* The blocks 0 .. MaxScanBlock - 1 may be scanned
MaxScanBlock == 3

\* What a notable block may have received: nothing, or outputs that overflow a Batch
ReportLists ==
  {<<>>,
   <<[output |-> <<0>>, in_instruction |-> <<3, 3, 3>>],
     [output |-> <<1>>, in_instruction |-> <<3, 3, 3>>]>>}

\* What the scan task may leave for a block: None if the block is not notable
BlockInfos == {None} \cup {Some(l) : l \in ReportLists}

\* The start block written to both cursors before the tasks run
CursorDb(start) ==
  [NextToScanForOutputsBlock |-> Some(start),
   NextToPotentiallyReportBlock |-> Some(start),
   NextBatchId |-> None]

EmptyCursor == [db |-> CursorDb(0), blocks |-> <<>>, up |-> TRUE, last |-> None]

\* A body of the loop that commits what it wrote when it stops at the todo!()
LoopBody_CommitsAtTodo(t, b, info) ==
  IF info # None
    THEN LET built == BlockBatches(t, b + 1, Unwrap(info)).db
         IN  [b |-> b, before |-> t, txn |-> built, db |-> built, panicked |-> TRUE]
    ELSE LET set == [t EXCEPT !.NextToPotentiallyReportBlock = Some(b + 1)]
         IN  [b |-> b, before |-> t, txn |-> set, db |-> set, panicked |-> FALSE]

\* The body of the loop for block b over the database t: the transaction as it is
\* when the body ends, the database after it, and whether the body stopped at the
\* todo!(), where the transaction is dropped
LoopBody(t, b, info) ==
  IF info # None
    THEN [b |-> b, before |-> t, txn |-> BlockBatches(t, b + 1, Unwrap(info)).db,
          db |-> t, panicked |-> TRUE]
    ELSE LET set == [t EXCEPT !.NextToPotentiallyReportBlock = Some(b + 1)]
         IN  [b |-> b, before |-> t, txn |-> set, db |-> set, panicked |-> FALSE]

\* for b in next_to_potentially_report ..= highest_reportable, stopped by the
\* todo!() of a notable block or when the process is killed after `budget` blocks
RECURSIVE ReportLoop(_, _, _, _, _)
ReportLoop(t, b, highest_reportable, blocks, budget) ==
  IF b > highest_reportable THEN [db |-> t, steps |-> <<>>, stopped |-> FALSE]
  ELSE IF budget = 0 THEN [db |-> t, steps |-> <<>>, stopped |-> TRUE]
  ELSE LET step == LoopBody(t, b, blocks[b + 1])
       IN  IF step.panicked THEN [db |-> t, steps |-> <<step>>, stopped |-> TRUE]
           ELSE LET rest == ReportLoop(step.db, b + 1, highest_reportable, blocks, budget - 1)
                IN  [db |-> rest.db, steps |-> <<step>> \o rest.steps,
                     stopped |-> rest.stopped]

\* ReportTask::run_iteration: what it returns, the database it leaves and what each
\* body of its loop did
run_iteration(t, blocks, budget) ==
  LET next_to_scan == Unwrap(t.NextToScanForOutputsBlock)
      next_to_potentially_report == Unwrap(t.NextToPotentiallyReportBlock)
  IN  IF next_to_scan = 0
        THEN [before |-> t, db |-> t, steps |-> <<>>, stopped |-> FALSE,
              returned |-> Some(FALSE)]
        ELSE LET highest_reportable == next_to_scan - 1
                 loop == ReportLoop(t, next_to_potentially_report, highest_reportable,
                                    blocks, budget)
             IN  [before |-> t, db |-> loop.db, steps |-> loop.steps,
                  stopped |-> loop.stopped,
                  returned |-> IF loop.stopped THEN None
                               ELSE Some(next_to_potentially_report <= highest_reportable)]

\* The start block is written
InitCursor ==
  \E start \in 0 .. 1 :
    cursor = [db |-> CursorDb(start), blocks |-> [b \in 1 .. start |-> None],
              up |-> TRUE, last |-> None]

\* The scan task scans the next block and commits
ScanBlock(info) ==
  /\ cursor.up
  /\ Unwrap(cursor.db.NextToScanForOutputsBlock) < MaxScanBlock
  /\ cursor' = [cursor EXCEPT
       !.db.NextToScanForOutputsBlock = Some(Unwrap(@) + 1),
       !.blocks = Append(@, info)]
  /\ UNCHANGED <<priorVars, keyblob, ring_loop, mq, scandb>>

\* An iteration of the report task; the process stops where the iteration stopped
RunReport(budget) ==
  /\ cursor.up
  /\ LET ran == run_iteration(cursor.db, cursor.blocks, budget)
     IN  cursor' = [cursor EXCEPT !.db = ran.db, !.up = ~ran.stopped, !.last = Some(ran)]
  /\ UNCHANGED <<priorVars, keyblob, ring_loop, mq, scandb>>

\* The process starts again
RestartReport ==
  /\ ~cursor.up
  /\ cursor' = [cursor EXCEPT !.up = TRUE]
  /\ UNCHANGED <<priorVars, keyblob, ring_loop, mq, scandb>>

NextCursor ==
  \/ \E info \in BlockInfos : ScanBlock(info)
  \/ \E budget \in 0 .. MaxScanBlock : RunReport(budget)
  \/ RestartReport

----------------------------------------------------------------------------
(* The message queue of one service: message-queue/src/queue.rs. Queue is Clone
   and every clone works on the same database; queue_message reads message_count
   from the database and then writes the message and the new count in a
   transaction of its own. *)

NumHandles == 2
NumQueuedMessages == 2
MaxQueueCalls == 3

Handles == 1 .. NumHandles
QueuedMessages == 1 .. NumQueuedMessages
MessageIds == 0 .. MaxQueueCalls

\* The rows under message_count_key and message_key(id), the call each handle is
\* in, and the calls that returned, in the order they returned
EmptyMq ==
  [count |-> None, message |-> [id \in MessageIds |-> None],
   calls |-> [h \in Handles |-> None], completed |-> <<>>]

\* Queue::message_count
message_count(q) == IF q.count = None THEN 0 ELSE ReadLe(Unwrap(q.count))

\* Queue::get_message
get_message(q, id) == IF id \in MessageIds THEN q.message[id] ELSE None

\* queue_message up to the opening of its transaction: the id is the count read
QueueRead(h, msg) ==
  /\ mq.calls[h] = None
  /\ Len(mq.completed) + Cardinality({g \in Handles : mq.calls[g] # None}) < MaxQueueCalls
  /\ mq' = [mq EXCEPT !.calls[h] = Some([msg |-> msg, id |-> message_count(mq)])]
  /\ UNCHANGED <<priorVars, keyblob, ring_loop, scandb, cursor>>

\* queue_message from its transaction on: the two puts and the commit
QueueCommit(h) ==
  /\ mq.calls[h] # None
  /\ LET started == Unwrap(mq.calls[h])
     IN  mq' = [mq EXCEPT
           !.message[started.id] = Some(started.msg),
           !.count = Some(LeBytes(started.id + 1, 8)),
           !.calls[h] = None,
           !.completed = Append(@, started)]
  /\ UNCHANGED <<priorVars, keyblob, ring_loop, scandb, cursor>>

InitMq == mq = EmptyMq

NextMq ==
  \/ \E h \in Handles, msg \in QueuedMessages : QueueRead(h, msg)
  \/ \E h \in Handles : QueueCommit(h)

----------------------------------------------------------------------------
(* The scan task's queued outputs: processor/scanner/src/scan/db.rs. The bytes of
   an OutputWithInInstruction are those of its own write; here an output is a
   number written as OutputLen little-endian bytes. *)

NumQueueBlocks == 2
NumOutputs == 2
MaxQueuedOutputs == 2
MaxHanded == 4
OutputLen == 2

QueueBlocks == 0 .. NumQueueBlocks - 1
Outputs == 1 .. NumOutputs

\* OutputWithInInstruction::write
OutputWrite(output) == LeBytes(output, OutputLen)

\* while !serialized.is_empty() { res.push(OutputWithInInstruction::read(..)) }
RECURSIVE OutputsRead(_)
OutputsRead(serialized) ==
  IF serialized = <<>> THEN <<>>
  ELSE <<ReadLe(SubSeq(serialized, 1, OutputLen))>>
         \o OutputsRead(SubSeq(serialized, OutputLen + 1, Len(serialized)))

\* ScanDb::take_queued_outputs: what it returns and the rows of
\* SerializedQueuedOutputs after it
take_queued_outputs(rows, block_number) ==
  LET serialized == IF rows[block_number] = None THEN <<>> ELSE Unwrap(rows[block_number])
  IN  [res |-> OutputsRead(serialized), rows |-> rows]

\* ScanDb::queue_output_until_block
queue_output_until_block(rows, queue_for_block, output) ==
  LET outputs == IF rows[queue_for_block] = None THEN <<>> ELSE Unwrap(rows[queue_for_block])
  IN  [rows EXCEPT ![queue_for_block] = Some(outputs \o OutputWrite(output))]

\* The rows of SerializedQueuedOutputs; for the properties, the outputs queued for
\* each block and the outputs handed out for it, in the order of the calls, and the
\* last call
EmptyScandb ==
  [rows |-> [b \in QueueBlocks |-> None],
   queued |-> [b \in QueueBlocks |-> <<>>],
   handed |-> [b \in QueueBlocks |-> <<>>],
   last |-> None]

InitScandb == scandb = EmptyScandb

\* queue_output_until_block and the commit of its transaction
QueueOutput(block, output) ==
  /\ Len(scandb.queued[block]) < MaxQueuedOutputs
  /\ scandb' = [scandb EXCEPT
       !.rows = queue_output_until_block(@, block, output),
       !.queued[block] = Append(@, output),
       !.last = Some([op |-> "queue", block |-> block, res |-> <<>>])]
  /\ UNCHANGED <<priorVars, keyblob, ring_loop, mq, cursor>>

\* take_queued_outputs and the commit of its transaction
TakeQueued(block) ==
  /\ LET took == take_queued_outputs(scandb.rows, block)
     IN  /\ Len(scandb.handed[block]) + Len(took.res) <= MaxHanded
         /\ scandb' = [scandb EXCEPT
              !.rows = took.rows,
              !.handed[block] = @ \o took.res,
              !.last = Some([op |-> "take", block |-> block, res |-> took.res])]
  /\ UNCHANGED <<priorVars, keyblob, ring_loop, mq, cursor>>

NextScandb ==
  \/ \E block \in QueueBlocks, output \in Outputs : QueueOutput(block, output)
  \/ \E block \in QueueBlocks : TakeQueued(block)

----------------------------------------------------------------------------
(* The session manager's specification *)

SlashReports == {<<1>>}

\* Signers::new on an empty database, and CosignerTask::new
InitSigners ==
  /\ db = EmptyDb
  /\ txn = EmptyDb
  /\ pc = "up"
  /\ tasks = {}
  /\ call = Call("new", None, <<>>, "ok", {})
  /\ current_cosign = None
  /\ manager = EmptyManager
  /\ tpc = "check"
  /\ hist = EmptyHist

\* The coordinator's channels, empty
InitChannels ==
  /\ sdb = EmptyChannels
  /\ stxn = None
  /\ slog = EmptyLog

\* No intent is asked for
IdleIntent ==
  /\ imsgs = <<>>
  /\ intents = None

\* Nothing is asked of the components modelled after the intents
IdleWire == wire = EmptyWire
IdleProvided == provided = EmptyProvided
IdleCdb == cdb = EmptyCdb
IdleRouter == router = EmptyRouter
IdleKeyblob == keyblob = EmptyKeyblob
IdleLoop == ring_loop = EmptyLoop
IdleMq == mq = EmptyMq
IdleScandb == scandb = EmptyScandb
IdleCursor == cursor = EmptyCursor
IdleLast == IdleKeyblob /\ IdleLoop /\ IdleMq /\ IdleScandb /\ IdleCursor
IdleLater == IdleCinput /\ IdleWire /\ IdleProvided /\ IdleCdb /\ IdleRouter /\ IdleLast
IdleRest == IdleReport /\ IdleCodec /\ IdleClsag /\ IdleLater

Init == InitSigners /\ InitChannels /\ IdleIntent /\ IdleRest

\* The operations that queue work, with the commits and restarts around them
NextQueue ==
  \/ Boot
  \/ \E session \in Sessions, k \in 1 .. MaxShares : RegisterKeys(session, k)
  \/ \E message \in CoordinatorMessages : QueueMessage(message)
  \/ \E session \in Sessions : CosignBlock(session, 1, 1)
  \/ \E session \in Sessions, slash_report \in SlashReports :
       SignSlashReport(session, slash_report)
  \/ Commit
  \/ Crash

SpecQueue == Init /\ [][NextQueue]_vars

\* Retirement and the clean-up on boot, with every writer of a session's channels
NextCleanup ==
  \/ Boot
  \/ \E session \in Sessions, external_key \in Keys : RetireSession(session, external_key)
  \/ \E message \in CoordinatorMessages : QueueMessage(message)
  \/ \E session \in Sessions : CosignBlock(session, 1, 1)
  \/ \E session \in Sessions, slash_report \in SlashReports :
       SignSlashReport(session, slash_report)
  \/ Commit
  \/ Crash
  \/ \E c \in TaskChannels, session \in Sessions : TaskSend(c, session)
  \/ \E c \in KeyChannels, key \in Keys : ScannerSend(c, key)
  \/ \E session \in Sessions : SetToCosign(session, CosignStruct(1, 1))

SpecCleanup == Init /\ [][NextCleanup]_vars

\* The writers of a session's channels, while the session is not retired
QueueBeforeRetirement(message) ==
  /\ ~SomeLe(sign_id(message).session, txn.LatestRetiredSession)
  /\ QueueMessage(message)
CosignBeforeRetirement(session) ==
  /\ ~SomeLe(session, txn.LatestRetiredSession)
  /\ CosignBlock(session, 1, 1)
SlashReportBeforeRetirement(session, slash_report) ==
  /\ ~SomeLe(session, txn.LatestRetiredSession)
  /\ SignSlashReport(session, slash_report)
TaskSendBeforeRetirement(c, session) ==
  /\ ~SomeLe(session, txn.LatestRetiredSession)
  /\ TaskSend(c, session)
ScannerSendBeforeRetirement(c, key) ==
  /\ txn.LatestRetiredSession = None
  /\ ScannerSend(c, key)

\* Retirement and boots that may stop in their clean-up, with what is queued for a
\* session before its retirement
NextCrashSafe ==
  \/ Boot
  \/ \E k \in 0 .. MaxSession + 1 : BootCrash(k)
  \/ \E session \in Sessions, external_key \in Keys : RetireSession(session, external_key)
  \/ \E message \in CoordinatorMessages : QueueBeforeRetirement(message)
  \/ \E session \in Sessions : CosignBeforeRetirement(session)
  \/ \E session \in Sessions, slash_report \in SlashReports :
       SlashReportBeforeRetirement(session, slash_report)
  \/ \E c \in TaskChannels, session \in Sessions : TaskSendBeforeRetirement(c, session)
  \/ \E c \in KeyChannels, key \in Keys : ScannerSendBeforeRetirement(c, key)
  \/ Commit
  \/ Crash

SpecCrashSafe == Init /\ [][NextCrashSafe]_vars

\* Retirement, restarts and the calls that queue work for a session
NextTerminal ==
  \/ Boot
  \/ \E session \in Sessions, external_key \in Keys : RetireSession(session, external_key)
  \/ \E message \in CoordinatorMessages : QueueMessage(message)
  \/ \E session \in Sessions : CosignBlock(session, 1, 1)
  \/ \E session \in Sessions, slash_report \in SlashReports :
       SignSlashReport(session, slash_report)
  \/ Commit
  \/ Crash

SpecTerminal == Init /\ [][NextTerminal]_vars

\* The registry alone: register_keys, retire_session, commits and restarts
NextRegistry ==
  \/ Boot
  \/ \E session \in Sessions, k \in 1 .. MaxShares : RegisterKeys(session, k)
  \/ \E session \in Sessions, external_key \in Keys : RetireSession(session, external_key)
  \/ Commit
  \/ Crash

SpecRegistry == Init /\ [][NextRegistry]_vars

\* The cosigner task of session CS, its attempt manager and what feeds them
SpecCosign == Init /\ [][NextCosign]_vars

\* The coordinator's channels, their senders and receivers
SpecChannels == Init /\ [][NextChannels]_vars

\* The intents of any two messages
StartIntent == InitSigners /\ InitChannels /\ InitIntent /\ IdleRest

SpecIntent == StartIntent /\ [][NextIntent]_vars

\* The report task at a scanned block
StartReport ==
  /\ InitSigners /\ InitChannels /\ IdleIntent
  /\ InitReport /\ IdleCodec /\ IdleClsag /\ IdleLater

SpecReport == StartReport /\ [][NextReport]_vars

\* The codec on a stream
StartCodec ==
  /\ InitSigners /\ InitChannels /\ IdleIntent
  /\ IdleReport /\ InitCodec /\ IdleClsag /\ IdleLater

SpecCodec == StartCodec /\ [][NextCodec]_vars

\* A CLSAG signed, handed on as it is or altered, and verified
StartClsag ==
  /\ InitSigners /\ InitChannels /\ IdleIntent
  /\ IdleReport /\ IdleCodec /\ InitClsag /\ IdleLater

SpecClsag == StartClsag /\ [][NextClsag]_vars

\* The components before ClsagInput::new, idle
IdleBase ==
  InitSigners /\ InitChannels /\ IdleIntent /\ IdleReport /\ IdleCodec /\ IdleClsag
IdleFirst == IdleBase /\ IdleLast
\* Nothing is asked of the components modelled before the last ones
IdlePrior == IdleBase /\ IdleCinput /\ IdleWire /\ IdleProvided /\ IdleCdb /\ IdleRouter

\* ClsagInput::new on any commitment and Decoys
StartCinput == IdleFirst /\ InitCinput /\ IdleWire /\ IdleProvided /\ IdleCdb /\ IdleRouter

SpecCinput == StartCinput /\ [][NextCinput]_vars

\* A Clsag written and read back
StartWire == IdleFirst /\ IdleCinput /\ InitWire /\ IdleProvided /\ IdleCdb /\ IdleRouter

SpecWire == StartWire /\ [][NextWire]_vars

\* Transactions provided and completed
SpecProvided == Init /\ [][NextProvided]_vars

\* Keys set and taken
SpecKeys == Init /\ [][NextKeys]_vars

\* Slash reports set and taken
SpecSlashReports == Init /\ [][NextSlashReports]_vars

\* The Router deployed and called
SpecRouter == Init /\ [][NextRouter]_vars

\* Key shares registered and read back at boot
StartKeyblob == IdlePrior /\ InitKeyblob /\ IdleLoop /\ IdleMq /\ IdleScandb /\ IdleCursor

SpecKeyblob == StartKeyblob /\ [][NextKeyblob]_vars

\* Runs of the CLSAG core loop
StartLoop == IdlePrior /\ IdleKeyblob /\ InitLoop /\ IdleMq /\ IdleScandb /\ IdleCursor

SpecLoop == StartLoop /\ [][NextLoop]_vars

\* The cosigner task fed with ToCosign values whose block numbers never decrease
NextCosignNoDecrease ==
  \/ CheckCosign
  \/ HandleMessage
  \/ EndIteration
  \/ CosignerCrash
  \/ CosignerNew
  \/ \E message \in CosignMessages : Deliver(message)
  \/ CoordinatorRecv
  \/ \E block_number \in Blocks, block \in Hashes :
       SetToCosignNoDecrease(CS, CosignStruct(block_number, block))

SpecCosignNoDecrease == Init /\ [][NextCosignNoDecrease]_vars

StartCursor == IdlePrior /\ IdleKeyblob /\ IdleLoop /\ IdleMq /\ IdleScandb /\ InitCursor

\* The scan task's cursor, the report task and its restarts
SpecCursor == StartCursor /\ [][NextCursor]_vars

StartMq == IdlePrior /\ IdleKeyblob /\ IdleLoop /\ InitMq /\ IdleScandb /\ IdleCursor

\* queue_message calls on the handles of one service queue, interleaved
SpecMq == StartMq /\ [][NextMq]_vars

StartScandb == IdlePrior /\ IdleKeyblob /\ IdleLoop /\ IdleMq /\ InitScandb /\ IdleCursor

\* Outputs queued for blocks and taken
SpecScandb == StartScandb /\ [][NextScandb]_vars

----------------------------------------------------------------------------
(* Properties of the session manager *)

RegisteredSessions(d) == Range(UnwrapOrEmpty(d.RegisteredKeys))

\* C1: retire_session(S) succeeds only when S is the session after the latest
\* retired one (0 when none was retired); for any other S the call aborts and the
\* committed LatestRetiredSession, RegisteredKeys, SerializedKeys and ToCleanup keep
\* their values.
C1_RetireInOrder ==
  [][call'.op = "retire_session" =>
       IF call'.session = (IF txn.LatestRetiredSession = None THEN 0
                           ELSE Unwrap(txn.LatestRetiredSession) + 1)
         THEN /\ call'.outcome = "ok"
              /\ txn'.LatestRetiredSession = Some(call'.session)
              /\ pc' = "up"
         ELSE /\ call'.outcome = "panic"
              /\ pc' = "down"
              /\ db' = db
              /\ txn' = db]_vars

\* A second retire_session of a session whose retirement was committed aborted
C1_Witness ==
  /\ call.op = "retire_session"
  /\ call.outcome = "panic"
  /\ db.LatestRetiredSession = Some(call.session)

\* C2: register_keys(session, ..) changes nothing when session <= LatestRetiredSession.
C2_RegisterRetiredIsNop ==
  [][(/\ call'.op = "register_keys"
      /\ txn.LatestRetiredSession # None
      /\ call'.session <= Unwrap(txn.LatestRetiredSession))
       => /\ txn'.RegisteredKeys = txn.RegisteredKeys
          /\ txn'.SerializedKeys = txn.SerializedKeys
          /\ db' = db]_vars

\* register_keys was called for the latest retired session, after another session
\* was registered
C2_Witness ==
  /\ call.op = "register_keys"
  /\ txn.LatestRetiredSession = Some(call.session)
  /\ RegisteredSessions(txn) # {}

RegistryInvariant(d) ==
  \A s \in Sessions :
    s \in RegisteredSessions(d)
      <=> (/\ d.SerializedKeys[s] # None
           /\ (d.LatestRetiredSession = None \/ s > Unwrap(d.LatestRetiredSession)))

\* C3: a session is in RegisteredKeys iff SerializedKeys[session] is present and
\* session > LatestRetiredSession, in the open transaction and in what is committed.
C3_RegistryInvariant == RegistryInvariant(txn) /\ RegistryInvariant(db)

\* A session was retired while a later one stays registered, all committed
C3_Witness ==
  /\ db.LatestRetiredSession # None
  /\ RegisteredSessions(db) # {}
  /\ \E s \in Sessions : s <= Unwrap(db.LatestRetiredSession) /\ s \notin RegisteredSessions(db)

\* C4: after a boot that follows a committed retire_session(S), try_recv on every
\* durable channel of S returns None, the cosign to work on of S is gone, and
\* ToCleanup no longer contains S. call.arg holds the (session, external_key)
\* entries ToCleanup held when the boot started.
C4_CleanupComplete ==
  (pc = "up" /\ call.op = "new") =>
    \A i \in DOMAIN call.arg :
      /\ \A c \in SessionChannels : TryRecv(db.chan[c][call.arg[i][1]]) = None
      /\ \A c \in KeyChannels : TryRecv(db.kchan[c][call.arg[i][2]]) = None
      /\ db.ToCosign[call.arg[i][1]] = None
      /\ \A j \in DOMAIN UnwrapOrEmpty(db.ToCleanup) :
           UnwrapOrEmpty(db.ToCleanup)[j][1] # call.arg[i][1]

\* The channel and the task handle of each VariantSignId variant
C10_Channel ==
  [Cosign |-> "CoordinatorToCosignerMessages",
   Batch |-> "CoordinatorToBatchSignerMessages",
   SlashReport |-> "CoordinatorToSlashReportSignerMessages",
   Transaction |-> "CoordinatorToTransactionSignerMessages"]

C10_Handle ==
  [Cosign |-> "cosigner", Batch |-> "batch",
   SlashReport |-> "slash_report", Transaction |-> "transaction"]

\* C10: queue_message(msg) appends msg to the one channel selected by the variant of
\* msg.sign_id().id and keyed by its session, leaves every other channel and row as
\* it was, commits nothing, and wakes only the matching task handle of that session,
\* if the session has handles.
C10_QueueMessageRoutes ==
  [][call'.op = "queue_message" =>
       LET msg == call'.arg
           session == msg.id.session
           variant == msg.id.id.variant
       IN  /\ txn'.chan[C10_Channel[variant]][session]
                = Append(txn.chan[C10_Channel[variant]][session], msg)
           /\ \A c \in SessionChannels, s \in Sessions :
                (c # C10_Channel[variant] \/ s # session) => txn'.chan[c][s] = txn.chan[c][s]
           /\ [txn' EXCEPT !.chan = txn.chan] = txn
           /\ db' = db
           /\ call'.woke = IF session \in tasks THEN {<<session, C10_Handle[variant]>>} ELSE {}
           /\ tasks' = tasks]_vars

\* A message was queued for a session that has task handles, while another channel
\* held a message
C10_Witness ==
  /\ call.op = "queue_message"
  /\ call.woke # {}
  /\ \E c \in SessionChannels, s \in Sessions :
       /\ <<c, s>> # <<C10_Channel[call.arg.id.id.variant], call.arg.id.session>>
       /\ txn.chan[c][s] # <<>>

----------------------------------------------------------------------------
(* Properties of the cosigner task *)

\* The SignedCosigns written to Cosign[CS], none of which is received here
CosignLog(d) == d.chan["Cosign"][CS]

SignedBlocks(d) == {CosignLog(d)[i].cosign.block_number : i \in DOMAIN CosignLog(d)}

\* A step of HandleMessage that does not abort, which handles HandledMsg: no other
\* step receives from the task's channel
HandleStep ==
  /\ pc = "up" /\ tpc = "handle" /\ pc' = "up"
  /\ Len(db'.chan[Inbox][CS]) < Len(db.chan[Inbox][CS])

HandledMsg == Head(db.chan[Inbox][CS])

\* C5: for any block number, the cosigner task writes at most one SignedCosign for
\* that block number to Cosign[CS], whatever the ToCosign updates, coordinator
\* messages and restarts.
C5_AtMostOnce ==
  \A i, j \in DOMAIN CosignLog(db) :
    CosignLog(db)[i].cosign.block_number = CosignLog(db)[j].cosign.block_number => i = j

\* After a cosign was completed the process restarted, and the task checked the
\* same ToCosign again without registering it
C5_Witness ==
  /\ pc = "up" /\ tpc = "handle"
  /\ db.ToCosign[CS] # None
  /\ Unwrap(db.ToCosign[CS]).block_number \in SignedBlocks(db)
  /\ current_cosign = None
  /\ manager = EmptyManager

\* C6: when the task observes a cosign for a newer block while an older one is in
\* flight, it retires the old block's sign id in the attempt manager and registers
\* the new one at attempt 0, broadcasting its preprocesses; no SignedCosign for a
\* block retired this way is ever written.
C6_Supersession ==
  /\ [](SignedBlocks(db) \cap hist.superseded = {})
  /\ [][(/\ pc = "up" /\ tpc = "check" /\ tpc' = "handle"
         /\ current_cosign # None
         /\ db.ToCosign[CS] # None
         /\ Unwrap(db.ToCosign[CS]).block_number > Unwrap(current_cosign).block_number)
          => LET old == Unwrap(current_cosign).block_number
                 cosign == Unwrap(db.ToCosign[CS])
             IN  /\ manager'[old] = None
                 /\ manager'[cosign.block_number]
                      = Some(Machine(0, "AwaitingPreprocesses", cosign))
                 /\ current_cosign' = Some(cosign)
                 /\ old \in hist'.superseded
                 /\ db'.chan[Outbox][CS]
                      = Append(db.chan[Outbox][CS],
                               ProcessorMessage("Preprocesses",
                                                SignId(CS, "Cosign", cosign.block_number, 0)))]_vars

\* A cosign was retired for a newer one, and the newer one was signed
C6_Witness ==
  /\ hist.superseded # {}
  /\ \E b \in SignedBlocks(db) : \E old \in hist.superseded : old < b

\* LatestCosigned[CS] is the block number of the last SignedCosign written
Completed(d) ==
  d.LatestCosigned[CS]
    = IF CosignLog(d) = <<>> THEN None
      ELSE Some(CosignLog(d)[Len(CosignLog(d))].cosign.block_number)

\* C7: when the attempt manager yields a signature for the current cosign, the
\* task, in the one transaction that receives the message, appends
\* SignedCosign{cosign, signature} to Cosign[CS] and sets LatestCosigned[CS] to the
\* cosign's block number, and clears its current cosign; what is committed holds
\* both writes or neither.
C7_AtomicCompletion ==
  /\ [](Completed(db))
  /\ [][(HandleStep /\ ManagerHandle(manager, HandledMsg).response.kind = "Signature")
          => LET cosign == Unwrap(current_cosign)
             IN  /\ CosignLog(db') = Append(CosignLog(db), SignedCosign(cosign, Signature(cosign)))
                 /\ db'.LatestCosigned[CS] = Some(cosign.block_number)
                 /\ db'.chan[Inbox][CS] = Tail(db.chan[Inbox][CS])
                 /\ current_cosign' = None]_vars

\* A completion was committed
C7_Witness ==
  /\ pc = "up"
  /\ CosignLog(db) # <<>>
  /\ db.LatestCosigned[CS] # None
  /\ current_cosign = None
  /\ \E b \in Blocks : manager[b] # None /\ Unwrap(manager[b]).phase = "Done"

\* The Preprocesses and Shares messages of the coordinator for a block
RoundMessages(b) ==
  {m \in CosignMessages : m.kind # "Reattempt" /\ m.id.id.n = b}

\* The phase in which a message of a kind is accepted
PhaseFor(kind) ==
  IF kind = "Preprocesses" THEN "AwaitingPreprocesses" ELSE "AwaitingShares"

\* C8: while the manager holds a sign id for which the highest Reattempt it handled
\* was for attempt a (0 when none), Preprocesses and Shares for an attempt below a
\* are dropped, those for an attempt above a have no effect, those for attempt a
\* are accepted in the phase that awaits them, and no message for an attempt below
\* a yields a signature.
C8_AttemptSupersession ==
  \A b \in Blocks :
    manager[b] # None =>
      \A m \in RoundMessages(b) :
        LET a == hist.floor[b]
            handled == ManagerHandle(manager, m)
        IN  /\ m.id.attempt # a
              => handled = [manager |-> manager, response |-> Messages(<<>>)]
            /\ (m.id.attempt = a /\ Unwrap(manager[b]).phase = PhaseFor(m.kind))
              => handled.manager # manager
            /\ handled.response.kind = "Signature" => m.id.attempt >= a

\* After a Reattempt was handled the cosign was signed at the attempt it named
C8_Witness ==
  \E b \in Blocks :
    /\ hist.floor[b] >= 1
    /\ manager[b] # None
    /\ Unwrap(manager[b]).phase = "Done"
    /\ Unwrap(manager[b]).attempt = hist.floor[b]
    /\ b \in SignedBlocks(db)

\* C9: when a Shares message the manager accepts holds a share that fails
\* verification, handling it sends exactly one InvalidParticipant{session,
\* participant} for a participant whose share failed, writes no SignedCosign and
\* ends the attempt; while the attempt is ended this way only a Reattempt has an
\* effect, so no signature is produced before one is handled.
C9_InvalidParticipantBlame ==
  /\ [](\A b \in Blocks :
          (manager[b] # None /\ Unwrap(manager[b]).phase = "Blamed")
            => \A m \in RoundMessages(b) :
                 ManagerHandle(manager, m) = [manager |-> manager, response |-> Messages(<<>>)])
  /\ [][(/\ HandleStep
         /\ HandledMsg.kind = "Shares"
         /\ manager[HandledMsg.id.id.n] # None
         /\ Unwrap(manager[HandledMsg.id.id.n]).attempt = HandledMsg.id.attempt
         /\ Unwrap(manager[HandledMsg.id.id.n]).phase = "AwaitingShares"
         /\ Blamed(HandledMsg.data) # {})
          => /\ \E p \in Blamed(HandledMsg.data) :
                  db'.chan[Outbox][CS]
                    = Append(db.chan[Outbox][CS], InvalidParticipant(CS, p))
             /\ CosignLog(db') = CosignLog(db)
             /\ db'.LatestCosigned = db.LatestCosigned
             /\ Unwrap(manager'[HandledMsg.id.id.n]).phase = "Blamed"
             /\ current_cosign' = current_cosign]_vars

\* Participant 2's share failed: the one InvalidParticipant for it is committed and
\* the attempt is ended
C9_Witness ==
  /\ pc = "up"
  /\ db.chan[Outbox][CS] = <<InvalidParticipant(CS, 2)>>
  /\ \E b \in Blocks :
       /\ manager[b] # None
       /\ Unwrap(manager[b]).phase = "Blamed"
       /\ current_cosign # None
       /\ Unwrap(current_cosign).block_number = b

----------------------------------------------------------------------------
(* Properties of cosign_block, sign_slash_report and register_keys *)

\* C11: after cosign_block(session, block_number, block) the cosign the session's
\* cosigner task reads as its intent, ToCosign[session], is (block_number, block),
\* and the session's cosigner handle was woken if the session has handles; after
\* sign_slash_report the report is the last value of SlashReport[session] and the
\* slash-report handle was woken.
C11_CosignBlockSetsIntent ==
  /\ call.op = "cosign_block"
       => /\ db.ToCosign[call.session] = Some(CosignStruct(call.arg[1], call.arg[2]))
          /\ call.woke = RunNow(tasks, call.session, "cosigner")
  /\ call.op = "sign_slash_report"
       => /\ db.chan["SlashReport"][call.session] # <<>>
          /\ db.chan["SlashReport"][call.session][Len(db.chan["SlashReport"][call.session])]
               = call.arg
          /\ call.woke = RunNow(tasks, call.session, "slash_report")

\* C12: after register_keys(session, ..) for a session above LatestRetiredSession
\* the Session -> task-handles map holds the session, and a queue_message,
\* cosign_block or sign_slash_report for a registered session of the running
\* process wakes a task.
C12_RegisterKeysSpawnsTasks ==
  /\ (call.op = "register_keys" /\ call.session \in RegisteredSessions(txn))
       => call.session \in tasks
  /\ (/\ call.op \in {"queue_message", "cosign_block", "sign_slash_report"}
      /\ call.session \in RegisteredSessions(txn))
       => call.woke # {}

----------------------------------------------------------------------------
(* Properties of the coordinator's channels *)

IsPrefix(a, b) == Len(a) <= Len(b) /\ \A i \in 1 .. Len(a) : a[i] = b[i]

\* C13: for every channel and key the values returned by try_recv are a prefix of
\* the values passed to send, in send order, in what is committed and in what the
\* open transaction sees; and try_recv returns None exactly when every value sent
\* was already received.
C13_ChannelFifo ==
  /\ \A slot \in Slots :
       /\ IsPrefix(slog.recvd[slot], slog.sent[slot])
       /\ IsPrefix(slog.recvd[slot] \o slog.precvd[slot], slog.sent[slot] \o slog.psent[slot])
  /\ slog.last # None
       => (Unwrap(slog.last).value = None <=> Unwrap(slog.last).pending = 0)

\* Two different values were sent on a channel and received, and the next
\* try_recv returned None
C13_Witness ==
  /\ slog.last # None
  /\ Unwrap(slog.last).value = None
  /\ LET slot == Unwrap(slog.last).slot
     IN  /\ Len(slog.recvd[slot]) = 2
         /\ slog.recvd[slot][1] # slog.recvd[slot][2]
         /\ slog.recvd[slot] = slog.sent[slot]

----------------------------------------------------------------------------
(* Properties of the intents *)

IsSign(m) == m.origin = "Coordinator" /\ m.message.type = "Sign"

\* C14: the intents of two coordinator Sign messages are equal exactly when their
\* kinds and SignIds are equal, whatever their payloads are.
C14_SignIntents ==
  (intents # None /\ IsSign(imsgs[1]) /\ IsSign(imsgs[2]))
    => (Unwrap(intents)[1] = Unwrap(intents)[2]
          <=> /\ imsgs[1].message.msg.kind = imsgs[2].message.msg.kind
              /\ imsgs[1].message.msg.id = imsgs[2].message.msg.id)

\* Two Preprocesses with SignIds that differ in the attempt only, and with
\* different intents
C14_Witness ==
  /\ intents # None /\ IsSign(imsgs[1]) /\ IsSign(imsgs[2])
  /\ imsgs[1].message.msg.kind = "Preprocesses"
  /\ imsgs[2].message.msg.kind = "Preprocesses"
  /\ imsgs[1].message.msg.id # imsgs[2].message.msg.id
  /\ [imsgs[1].message.msg.id EXCEPT !.attempt = 0]
       = [imsgs[2].message.msg.id EXCEPT !.attempt = 0]
  /\ Unwrap(intents)[1] # Unwrap(intents)[2]

IsCosignSubstrateBlock(m) ==
  /\ m.origin = "Coordinator"
  /\ m.message.type = "Coordinator"
  /\ m.message.msg.kind = "CosignSubstrateBlock"

\* C15: two CosignSubstrateBlock messages have equal intents exactly when their
\* block numbers are equal, whatever their block hashes are.
C15_CosignIntents ==
  (intents # None /\ IsCosignSubstrateBlock(imsgs[1]) /\ IsCosignSubstrateBlock(imsgs[2]))
    => (Unwrap(intents)[1] = Unwrap(intents)[2]
          <=> imsgs[1].message.msg.block_number = imsgs[2].message.msg.block_number)

\* Two CosignSubstrateBlock with one block number and two block hashes, and equal
\* intents
C15_Witness ==
  /\ intents # None
  /\ IsCosignSubstrateBlock(imsgs[1]) /\ IsCosignSubstrateBlock(imsgs[2])
  /\ imsgs[1].message.msg.block_number = imsgs[2].message.msg.block_number
  /\ imsgs[1].message.msg.block # imsgs[2].message.msg.block
  /\ Unwrap(intents)[1] = Unwrap(intents)[2]

\* The three bytes an intent starts with, by the specification's table
OriginUid(m) == IF m.origin = "Coordinator" THEN 0 ELSE 1

TypeUid(m) ==
  CASE m.message.type = "KeyGen" -> 0
    [] m.message.type = "Sign" -> 1
    [] m.message.type = "Coordinator" -> 2
    [] m.message.type = "Substrate" -> 3

\* The variants of each message type, in the order of their sub_uids
VariantsOf(m) ==
  CASE m.origin = "Coordinator" /\ m.message.type = "KeyGen" ->
         <<"GenerateKey", "Participation">>
    [] m.origin = "Coordinator" /\ m.message.type = "Sign" ->
         <<"Preprocesses", "Shares", "Reattempt">>
    [] m.origin = "Coordinator" /\ m.message.type = "Coordinator" ->
         <<"CosignSubstrateBlock", "SignSlashReport">>
    [] m.origin = "Coordinator" /\ m.message.type = "Substrate" ->
         <<"SetKeys", "SlashesReported", "Block">>
    [] m.origin = "Processor" /\ m.message.type = "KeyGen" ->
         <<"Participation", "GeneratedKeyPair", "Blame">>
    [] m.origin = "Processor" /\ m.message.type = "Sign" ->
         <<"InvalidParticipant", "Preprocesses", "Shares">>
    [] m.origin = "Processor" /\ m.message.type = "Coordinator" ->
         <<"CosignedBlock", "SignedBatch", "SubstrateBlockAck", "SignedSlashReport">>

SubUid(m) ==
  (CHOOSE i \in DOMAIN VariantsOf(m) : VariantsOf(m)[i] = m.message.msg.kind) - 1

Header(m) == <<OriginUid(m), TypeUid(m), SubUid(m)>>

\* C16: every intent starts with origin_uid, type_uid and the sub_uid of the
\* variant, and two messages of different origin, type or variant have different
\* intents.
C16_IntentHeader ==
  intents # None
    => /\ \A i \in 1 .. 2 : SubSeq(Unwrap(intents)[i], 1, 3) = Header(imsgs[i])
       /\ (\/ imsgs[1].origin # imsgs[2].origin
           \/ imsgs[1].message.type # imsgs[2].message.type
           \/ imsgs[1].message.msg.kind # imsgs[2].message.msg.kind)
            => Unwrap(intents)[1] # Unwrap(intents)[2]

\* A coordinator's and a processor's Sign Preprocesses for one SignId: the bodies of
\* their intents are equal and the intents differ
C16_Witness ==
  /\ intents # None
  /\ imsgs[1].origin = "Coordinator" /\ imsgs[2].origin = "Processor"
  /\ imsgs[1].message.type = "Sign" /\ imsgs[2].message.type = "Sign"
  /\ imsgs[1].message.msg.kind = "Preprocesses" /\ imsgs[2].message.msg.kind = "Preprocesses"
  /\ imsgs[1].message.msg.id = imsgs[2].message.msg.id
  /\ Unwrap(intents)[1] # Unwrap(intents)[2]

----------------------------------------------------------------------------
(* Properties of the report task *)

RECURSIVE ConcatInstructions(_)
ConcatInstructions(batches) ==
  IF batches = <<>> THEN <<>>
  ELSE batches[1].instructions \o ConcatInstructions(Tail(batches))

\* The arrangement of s in which the output ids increase
InOutputIdOrder(s) ==
  CHOOSE p \in [1 .. Len(s) -> Range(s)] :
    /\ \A x \in Range(s) : \E i \in 1 .. Len(s) : p[i] = x
    /\ \A i \in 1 .. Len(s) - 1 : SliceLess(p[i].output, p[i + 1].output)

BuiltBatches == Unwrap(report.batches)

\* C17: the Batches built for a notable block have strictly increasing ids and the
\* block's hash, each encodes to at most MAX_BATCH_SIZE bytes, and their instructions,
\* concatenated, are the block's InInstructions in the order of their output ids.
C17_BatchSplit ==
  report.batches # None =>
    /\ \A i \in 1 .. Len(BuiltBatches) - 1 : BuiltBatches[i].id < BuiltBatches[i + 1].id
    /\ \A i \in 1 .. Len(BuiltBatches) : BuiltBatches[i].block = scanned.block
    /\ \A i \in 1 .. Len(BuiltBatches) : EncodedLen(BuiltBatches[i]) <= MAX_BATCH_SIZE
    /\ ConcatInstructions(BuiltBatches) =
         [i \in 1 .. Len(scanned.in_instructions) |->
            InOutputIdOrder(scanned.in_instructions)[i].in_instruction]

\* A block whose instructions were stored out of order and did not fit one Batch
C17_Witness ==
  /\ report.batches # None
  /\ Len(BuiltBatches) >= 2
  /\ scanned.in_instructions # SortByOutputId(scanned.in_instructions)

----------------------------------------------------------------------------
(* Properties of the request-response codec *)

ReadResult == Unwrap(codec.result)

\* The stream held at least four bytes, and these are its length prefix
PrefixLen == FromLeBytes(SubSeq(codec.input, 1, 4))

\* The stream held a whole frame, and this is its body
FrameBody == SubSeq(codec.input, 5, 4 + PrefixLen)

\* C18: read returns an error and no message for a frame whose length prefix exceeds
\* MAX_LIBP2P_REQRES_MESSAGE_SIZE and for a frame whose body continues after the
\* serialization of a message; the frame written for a message whose serialization is
\* within the cap is read back as that message.
C18_CodecFraming ==
  codec.result # None =>
    /\ (Len(codec.input) >= 4 /\ PrefixLen > MAX_LIBP2P_REQRES_MESSAGE_SIZE) =>
         (~ReadResult.ok /\ ReadResult.value = None)
    /\ (/\ Len(codec.input) >= 4
        /\ Len(codec.input) >= 4 + PrefixLen
        /\ \E msg \in Responses :
             /\ Len(Serialize(msg)) < Len(FrameBody)
             /\ SubSeq(FrameBody, 1, Len(Serialize(msg))) = Serialize(msg)) =>
         (~ReadResult.ok /\ ReadResult.value = None)
    /\ (codec.written # None
          /\ Len(Serialize(Unwrap(codec.written))) <= MAX_LIBP2P_REQRES_MESSAGE_SIZE) =>
         (ReadResult.ok /\ ReadResult.value = codec.written)

\* A message with an item was written and read back
C18_Witness ==
  /\ codec.result # None
  /\ codec.written # None
  /\ Unwrap(codec.written).variant = "Blocks"
  /\ Len(Unwrap(codec.written).items) = 1
  /\ ReadResult.ok

----------------------------------------------------------------------------
(* Properties of CLSAG *)

Given == Unwrap(clsag.given)
VerifyResult == Unwrap(clsag.result)

\* C19: the signature and pseudo-out that sign returns for an input verify against the
\* input's ring and key image and the message.
C19_SignThenVerify ==
  (clsag.result # None /\ ~clsag.tampered) => VerifyResult = "Ok"

WrongLength == Len(Given.ring) # Len(Given.sig.s)
BadImage == Given.I = Identity \/ Given.I.t # 0
BadD == Mul(COFACTOR, Given.sig.D) = Identity
\* The challenge verify arrives at after going around the ring from the stored c1
RecomputedC1 ==
  core(Given.ring, Given.I, Given.pseudo_out, Given.msg, Mul(COFACTOR, Given.sig.D),
       Given.sig.s, [mode |-> "Verify", c1 |-> Given.sig.c1]).c1

----------------------------------------------------------------------------
(* Properties of ClsagInput::new *)

CinputRing == Unwrap(cinput.decoys).ring
CinputIndex == Unwrap(cinput.decoys).signer_index
CinputResult == Unwrap(cinput.returned).result
CinputMatches ==
  At(CinputRing, CinputIndex)[2] = Calculate(Unwrap(cinput.commitment))

\* C21: ClsagInput::new accepts only a ring of 1 to 255 members with the signer index
\* inside it and the commitment's point at that index; a ring length outside 1..=255
\* yields InvalidRing, an index at or past the length InvalidRingMember, and a
\* commitment that does not match InvalidCommitment.
C21_InputChecks ==
  cinput.returned # None =>
    LET n == Len(CinputRing)
        inRange == 1 <= n /\ n <= U8_MAX
    IN  /\ CinputResult = "Ok" => (inRange /\ CinputIndex < n /\ CinputMatches)
        /\ ~inRange => CinputResult = "InvalidRing"
        /\ (inRange /\ CinputIndex >= n) => CinputResult = "InvalidRingMember"
        /\ (inRange /\ CinputIndex < n /\ ~CinputMatches) =>
             CinputResult = "InvalidCommitment"

----------------------------------------------------------------------------
(* Properties of the wire form *)

WireSig == Unwrap(wire.sig)
WireBytes == Unwrap(wire.bytes)
\* The i-th block of 32 bytes, counted from zero
Block32(bytes, i) == SubSeq(bytes, 32 * i + 1, 32 * i + 32)

\* C22: write emits s[0], .., s[n-1], then c1, then D, 32 bytes each and nothing else,
\* fee_weight(n) bytes in all, and read(n, .) of these bytes returns the signature.
C22_WireForm ==
  wire.bytes # None =>
    LET n == Len(WireSig.s)
    IN  /\ Len(WireBytes) = 32 * n + 64
        /\ Len(WireBytes) = fee_weight(n)
        /\ \A i \in 0 .. n - 1 : ReadLe(Block32(WireBytes, i)) = At(WireSig.s, i)
        /\ ReadLe(Block32(WireBytes, n)) = WireSig.c1
        /\ ReadLe(Block32(WireBytes, n + 1)) = WireSig.D.p * COFACTOR + WireSig.D.t
        /\ (wire.read # None /\ wire.decoys = Some(n)) =>
             /\ Unwrap(wire.read).ok
             /\ Unwrap(wire.read).value = wire.sig
             /\ Unwrap(wire.read).rest = <<>>

\* A signature of two scalars and a torsioned D was written and read back
C22_Witness ==
  /\ wire.read # None
  /\ wire.decoys = Some(2)
  /\ Len(WireSig.s) = 2
  /\ WireSig.D.t # 0
  /\ WireSig.c1 # Compress(WireSig.D)
  /\ Unwrap(wire.read).ok

----------------------------------------------------------------------------
(* Properties of the provided transactions *)

ProvideCall == Unwrap(provided.returned)

\* C23: provide returns NotProvided for a transaction whose kind is not Provided and
\* AlreadyProvided for one whose hash was provided before, completed or not; after
\* either error the queue and the stored list are as before the call; after Ok the
\* transaction is the last of both.
C23_Provide ==
  provided.returned # None =>
    /\ ProvideCall.tx.kind # "Provided" => ProvideCall.result = "NotProvided"
    /\ ProvideCall.tx.hash \in ProvideCall.ever => ProvideCall.result = "AlreadyProvided"
    /\ ProvideCall.result \in {"NotProvided", "AlreadyProvided"} =>
         /\ provided.transactions = ProvideCall.transactions
         /\ provided.current = ProvideCall.current
    /\ ProvideCall.result = "Ok" =>
         /\ provided.transactions = Append(ProvideCall.transactions, ProvideCall.tx)
         /\ provided.current = Append(ProvideCall.current, ProvideCall.tx.hash)

\* A transaction provided and completed earlier was provided again and refused, while
\* another transaction still waits
C23_Witness ==
  /\ provided.returned # None
  /\ ProvideCall.result = "AlreadyProvided"
  /\ \A i \in 1 .. Len(provided.current) : provided.current[i] # ProvideCall.tx.hash
  /\ provided.transactions # <<>>

----------------------------------------------------------------------------
(* Properties of the coordinator's Keys and SlashReports *)

\* C24: Keys::set for a session not strictly greater than the stored one leaves the
\* stored (session, transaction) as it is, Keys::set for a strictly greater session (or
\* with nothing stored) replaces it, and while a row stays stored its session never
\* decreases.
C24_MostRecentKeys ==
  [][\A network \in Networks :
       LET old == cdb.keys[network]
           new == cdb'.keys[network]
       IN  /\ (old # None /\ new # None) => RowSession(new) >= RowSession(old)
           /\ (/\ cdb'.last # None
               /\ Unwrap(cdb'.last).fn = "Keys::set"
               /\ Unwrap(cdb'.last).network = network) =>
                IF old # None /\ RowSession(old) >= Unwrap(cdb'.last).session
                  THEN new = old
                  ELSE new = Some(<<Unwrap(cdb'.last).session, Unwrap(cdb'.last).tx>>)]_vars

\* Keys::set was called for the session already stored, with other keys
C24_Witness ==
  /\ cdb.last # None
  /\ Unwrap(cdb.last).fn = "Keys::set"
  /\ Unwrap(cdb.last).existing # None
  /\ RowSession(Unwrap(cdb.last).existing) = Unwrap(cdb.last).session
  /\ Unwrap(Unwrap(cdb.last).existing)[2] # Unwrap(cdb.last).tx

SlashCall == Unwrap(cdb.last)
SlashHistoric == SlashCall.existing # None /\ RowSession(SlashCall.existing) >= SlashCall.session

\* C25: SlashReports::set returns InvalidSlashReport whenever the slashes are invalid, and
\* then writes nothing; it returns Ok and stores the report only for valid slashes of a
\* session strictly more recent than the stored one; it returns Ok without writing for a
\* valid historic report.
C25_SlashReportsSet ==
  (cdb.last # None /\ SlashCall.fn = "SlashReports::set") =>
    LET row == cdb.slash_reports[SlashCall.network]
    IN  /\ ~SlashCall.slashes.valid =>
             (SlashCall.result = "InvalidSlashReport" /\ row = SlashCall.existing)
        /\ (SlashCall.slashes.valid /\ ~SlashHistoric) =>
             /\ SlashCall.result = "Ok"
             /\ row = Some(<<SlashCall.session,
                             report_slashes(SlashCall.network, SlashCall.slashes.id)>>)
        /\ (SlashCall.slashes.valid /\ SlashHistoric) =>
             (SlashCall.result = "Ok" /\ row = SlashCall.existing)

----------------------------------------------------------------------------
(* Properties of the Router *)

RouterCall == Unwrap(router.last)
SignedCalls == {"confirm_next_serai_key", "update_serai_key", "execute", "escape_hatch"}
\* The key the call's signature has to be of
RequiredKey ==
  IF RouterCall.fn = "confirm_next_serai_key" THEN RouterCall.before.next_key
  ELSE RouterCall.before.key
\* Whether the call's signature was one of the required key over the call
SignatureVerified ==
  /\ RequiredKey # None
  /\ Unwrap(RouterCall.sig).signer = Unwrap(RequiredKey)
  /\ Unwrap(RouterCall.sig).nonce = RouterCall.before.next_nonce
  /\ Unwrap(RouterCall.sig).intact

\* C26: once the escape hatch was invoked, update_serai_key, confirm_next_serai_key,
\* in_instruction, execute and escape_hatch all fail with EscapeHatchInvoked, and no call
\* changes escaped_to, key, next_key or next_nonce; before it was invoked, escape fails
\* with EscapeHatchNotInvoked; and only a successful escape_hatch invokes it.
C26_EscapeHatchTerminal ==
  router.last # None =>
    /\ RouterCall.before.escaped_to # None =>
         /\ RouterCall.fn \in SignedCalls \cup {"in_instruction"} =>
              RouterCall.result = "EscapeHatchInvoked"
         /\ RouterState = RouterCall.before
    /\ (RouterCall.fn = "escape" /\ RouterCall.before.escaped_to = None) =>
         RouterCall.result = "EscapeHatchNotInvoked"
    /\ router.escaped_to # RouterCall.before.escaped_to =>
         (RouterCall.fn = "escape_hatch" /\ RouterCall.result = "Ok")

\* After the escape hatch was invoked, the key signed an escape to another contract
C26_Witness ==
  /\ router.last # None
  /\ RouterCall.before.escaped_to # None
  /\ RouterCall.fn = "escape_hatch"
  /\ RouterCall.arg \notin {RouterCall.before.escaped_to, Some("zero"), Some("empty")}
  /\ SignatureVerified

\* C27: next_nonce is 1 after the deployment, which used nonce 0; every successful
\* confirm_next_serai_key, update_serai_key, execute and escape_hatch emits exactly one
\* Executed event carrying the next_nonce of before the call and adds exactly 1 to
\* next_nonce; a rejected call leaves next_nonce as it was.
C27_Nonce ==
  router.last # None =>
    /\ RouterCall.fn = "constructor" =>
         (router.next_nonce = 1 /\ RouterCall.events[1].nonce = 0)
    /\ (RouterCall.fn \in SignedCalls /\ RouterCall.result = "Ok") =>
         /\ Len(RouterCall.events) = 1
         /\ RouterCall.events[1].nonce = RouterCall.before.next_nonce
         /\ router.next_nonce = RouterCall.before.next_nonce + 1
    /\ RouterCall.result # "Ok" =>
         (router.next_nonce = RouterCall.before.next_nonce /\ RouterCall.events = <<>>)

\* A successful call used a nonce after another did
C27_Witness ==
  /\ router.last # None
  /\ RouterCall.fn = "execute"
  /\ RouterCall.result = "Ok"
  /\ RouterCall.before.next_nonce > 2

\* Without a confirmed key, the calls that need it fail with SeraiKeyWasNone
NoKeyRefused ==
  (RouterCall.before.key = None
     /\ RouterCall.fn \in {"update_serai_key", "execute", "escape_hatch", "in_instruction"}) =>
    RouterCall.result = "SeraiKeyWasNone"
\* Without a pending key, confirm_next_serai_key fails with SeraiKeyWasNone
NoNextKeyRefused ==
  (RouterCall.before.next_key = None /\ RouterCall.fn = "confirm_next_serai_key") =>
    RouterCall.result = "SeraiKeyWasNone"
\* A signature that does not verify under the required key fails with InvalidSignature
BadSignatureRefused ==
  (RouterCall.fn \in SignedCalls /\ RequiredKey # None /\ ~SignatureVerified) =>
    RouterCall.result = "InvalidSignature"
\* These failures change nothing
GuardFailuresChangeNothing ==
  RouterCall.result \in {"SeraiKeyWasNone", "InvalidSignature"} =>
    RouterState = RouterCall.before

RotationAccepted ==
    /\ (RouterCall.fn = "update_serai_key" /\ SignatureVerified) =>
         IF RouterCall.arg = Some(ZeroKey)
           THEN RouterCall.result = "InvalidSeraiKey" /\ RouterState = RouterCall.before
           ELSE /\ RouterCall.result = "Ok"
                /\ router.next_key = RouterCall.arg
                /\ router.key = RouterCall.before.key
    /\ (RouterCall.fn = "confirm_next_serai_key" /\ SignatureVerified) =>
         /\ RouterCall.result = "Ok"
         /\ router.key = RouterCall.before.next_key
         /\ router.next_key = None

\* C29: update_serai_key signed by the current key sets next_key to the new key, also
\* over a pending one, and leaves key as it is, unless the new key is zero, which is
\* refused with InvalidSeraiKey; confirm_next_serai_key signed by the pending next key
\* makes it the key and clears next_key; no other call changes key.
C29_TwoPhaseRotation ==
  router.last # None =>
    /\ (RouterCall.fn = "update_serai_key" /\ RouterCall.result = "Ok") =>
         /\ SignatureVerified
         /\ router.next_key = RouterCall.arg
         /\ router.key = RouterCall.before.key
    /\ (RouterCall.fn = "confirm_next_serai_key" /\ RouterCall.result = "Ok") =>
         /\ SignatureVerified
         /\ router.key = RouterCall.before.next_key
         /\ router.next_key = None
    /\ router.key # RouterCall.before.key =>
         (RouterCall.fn = "confirm_next_serai_key" /\ RouterCall.result = "Ok")
    /\ RouterCall.before.escaped_to = None => RotationAccepted

\* A pending next key was replaced by another
C29_Witness ==
  /\ router.last # None
  /\ RouterCall.fn = "update_serai_key"
  /\ RouterCall.result = "Ok"
  /\ RouterCall.before.next_key # None
  /\ RouterCall.before.next_key # RouterCall.arg
  /\ router.next_key = RouterCall.arg

----------------------------------------------------------------------------
(* The writes of retire_session *)

\* The other sessions of a list of sessions, in their order
RECURSIVE OtherSessions(_, _)
OtherSessions(sessions, session) ==
  IF sessions = <<>> THEN <<>>
  ELSE IF Head(sessions) = session THEN OtherSessions(Tail(sessions), session)
  ELSE <<Head(sessions)>> \o OtherSessions(Tail(sessions), session)

\* C30: a successful retire_session(S, external_key) writes, in the caller's open
\* transaction and nowhere else, LatestRetiredSession = S, RegisteredKeys without any
\* occurrence of S and with the other sessions as they were, no SerializedKeys[S] and
\* the SerializedKeys of the other sessions as they were, and ToCleanup with the one
\* entry (S, external_key) added at its end; so too when S never had keys registered.
C30_RetireWrites ==
  [][(call'.op = "retire_session" /\ call'.outcome = "ok") =>
       /\ txn'.LatestRetiredSession = Some(call'.session)
       /\ IF txn.RegisteredKeys = None THEN txn'.RegisteredKeys = None
          ELSE txn'.RegisteredKeys =
                 Some(OtherSessions(Unwrap(txn.RegisteredKeys), call'.session))
       /\ \A s \in Sessions :
            txn'.SerializedKeys[s] =
              IF s = call'.session THEN None ELSE txn.SerializedKeys[s]
       /\ txn'.ToCleanup =
            Some(UnwrapOrEmpty(txn.ToCleanup) \o <<<<call'.session, call'.arg>>>>)
       /\ db' = db]_vars

\* With no keys ever registered, a session was retired after another one that still
\* waits for its clean up
C30_Witness ==
  /\ call.op = "retire_session"
  /\ call.outcome = "ok"
  /\ call.session = 1
  /\ txn.RegisteredKeys = None
  /\ Len(UnwrapOrEmpty(txn.ToCleanup)) = 2

----------------------------------------------------------------------------
(* The clean-up on boot and crashes *)

\* The sessions waiting for their clean-up
ToCleanupSessions(d) == {entry[1] : entry \in Range(UnwrapOrEmpty(d.ToCleanup))}

\* A retired session is not in ToCleanup only with its channels empty
NoneLeftBehind(d) ==
  \A S \in Sessions :
    (SomeLe(S, d.LatestRetiredSession) /\ S \notin ToCleanupSessions(d)) =>
      \A c \in SessionChannels : d.chan[c][S] = <<>>

C32_RetirementTerminal ==
  (call.op = "new" /\ call.outcome = "ok") => NoneLeftBehind(db)

----------------------------------------------------------------------------
(* Retirement and the running tasks *)

TaskHandles == {"cosigner", "batch", "slash_report", "transaction"}

----------------------------------------------------------------------------
(* Properties of the blob of key shares *)

GivenSubstrate == Unwrap(keyblob.substrate_keys)
GivenNetwork == Unwrap(keyblob.network_keys)

\* The shares of both curves, pair after pair, as bytes
RECURSIVE PairBytes(_, _, _)
PairBytes(substrate_keys, network_keys, j) ==
  IF j > Len(substrate_keys) THEN <<>>
  ELSE ThresholdKeysSerialize(substrate_keys[j]) \o ThresholdKeysSerialize(network_keys[j])
         \o PairBytes(substrate_keys, network_keys, j + 1)

\* C34: for k substrate and k network shares given to register_keys, the blob is
\* substrate_0, network_0, .., substrate_(k-1), network_(k-1), and the reader of
\* Signers::new recovers these k pairs in their order and stops with no byte left.
C34_KeyBlobRoundTrip ==
  (keyblob.blob # None /\ Len(GivenSubstrate) = Len(GivenNetwork)) =>
    /\ Unwrap(keyblob.blob) = PairBytes(GivenSubstrate, GivenNetwork, 1)
    /\ keyblob.read # None =>
         /\ ~Unwrap(keyblob.read).panicked
         /\ Unwrap(keyblob.read).substrate_keys = GivenSubstrate
         /\ Unwrap(keyblob.read).external_keys = GivenNetwork
         /\ Unwrap(keyblob.read).buf = <<>>

\* Two different pairs of shares were stored and read back
C34_Witness ==
  /\ keyblob.read # None
  /\ Len(GivenSubstrate) = 2
  /\ Len(GivenNetwork) = 2
  /\ GivenSubstrate[1] # GivenSubstrate[2]
  /\ GivenNetwork[1].i # GivenSubstrate[1].i
  /\ ~Unwrap(keyblob.read).panicked

----------------------------------------------------------------------------
(* Properties of the CLSAG core loop *)

LoopN == Len(Unwrap(ring_loop.ring))
LoopMode == Unwrap(ring_loop.A_c1)
LoopRun == Unwrap(ring_loop.returned)
\* The iterations that assigned c1
Closers == {t \in 1 .. Len(LoopRun.iterations) : LoopRun.iterations[t].assigns}

\* Signing visits r+1, .., r+n-1 (mod n), verification 0, .., n-1; an iteration is fed
\* the challenge the one before it made, the first one the initial challenge; and the
\* returned c1 is the challenge that feeds index 0
VisitsAndChallenge ==
  /\ Len(LoopRun.iterations) = IF LoopMode.mode = "Sign" THEN LoopN - 1 ELSE LoopN
  /\ \A t \in 1 .. Len(LoopRun.iterations) :
       /\ LoopRun.iterations[t].i =
            IF LoopMode.mode = "Sign" THEN (LoopMode.r + t) % LoopN ELSE t - 1
       /\ LoopRun.iterations[t].c =
            IF t = 1 THEN LoopRun.c ELSE LoopRun.iterations[t - 1].next
       /\ LoopMode.mode = "Sign" => LoopRun.iterations[t].i # LoopMode.r
       /\ (LoopMode.mode = "Sign" /\ LoopRun.iterations[t].i = 0) =>
            LoopRun.c1 = LoopRun.iterations[t].c
       /\ LoopRun.iterations[t].i = LoopN - 1 => LoopRun.c1 = LoopRun.iterations[t].next
  /\ \A t, u \in 1 .. Len(LoopRun.iterations) :
       LoopRun.iterations[t].i = LoopRun.iterations[u].i => t = u

----------------------------------------------------------------------------
(* The assertions of the cosigner task *)

\* The check step is about to replace the cosign in flight by one whose block
\* number is not greater: assert!(current_cosign.block_number < cosign.block_number)
\* fails
SupersedeFails ==
  /\ pc = "up"
  /\ tpc = "check"
  /\ db.ToCosign[CS] # None
  /\ IsFresh(db, CS, current_cosign, Unwrap(db.ToCosign[CS]))
  /\ current_cosign # None
  /\ ~SupersedeAssertion(Unwrap(current_cosign), Unwrap(db.ToCosign[CS]))

\* The attempt manager is about to yield a signature for a block that is not the
\* current cosign's: the assert_eq! of the Response::Signature arm fails
CompletionFails ==
  /\ pc = "up"
  /\ tpc = "handle"
  /\ TryRecv(db.chan[Inbox][CS]) # None
  /\ LET response == ManagerHandle(manager, Unwrap(TryRecv(db.chan[Inbox][CS]))).response
     IN  /\ response.kind = "Signature"
         /\ ~CompletionAssertion(current_cosign, response.id)

\* C36: the assertions of the cosigner task never fail: a cosign that replaces the
\* one in flight has a strictly greater block number, and a signature the attempt
\* manager yields is for the block number of the current cosign, for every
\* sequence of ToCosign values whose block numbers never decrease and every
\* sequence of coordinator messages
C36_AssertionsHold == ~SupersedeFails /\ ~CompletionFails

----------------------------------------------------------------------------
(* The queue of provided transactions and its stored list *)

\* What a fresh ProvidedTransactions::new over the database would hold
FreshQueue == [i \in 1 .. Len(provided.current) |-> StoredTx(provided.current[i])]

\* The hashes provided with Ok and not completed, in the order they were provided
Waiting ==
  [i \in 1 .. Len(provided.order) - Len(provided.done) |->
     provided.order[Len(provided.done) + i]]

\* C37: after any successful provide calls and committed complete calls a fresh
\* ProvidedTransactions::new holds exactly the transactions provided and not
\* completed, in the order they were provided, and so does the queue in memory of a
\* running instance; complete succeeds only for the transaction at the front, so
\* the completed transactions are the first of those provided, in that order.
C37_QueueIsStoredList ==
  /\ Len(provided.done) <= Len(provided.order)
  /\ provided.done = SubSeq(provided.order, 1, Len(provided.done))
  /\ Len(FreshQueue) = Len(Waiting)
  /\ \A i \in 1 .. Len(Waiting) : FreshQueue[i].hash = Waiting[i]
  /\ provided.up => provided.transactions = FreshQueue

\* One transaction was completed and two more wait in a running instance
C37_Witness ==
  /\ provided.up
  /\ Len(provided.done) = 1
  /\ Len(provided.transactions) = 2
  /\ provided.returned = None

----------------------------------------------------------------------------
(* Properties of the report task's cursor *)

ReportCursor(t) == Unwrap(t.NextToPotentiallyReportBlock)

LastRun == Unwrap(cursor.last)

\* The bodies of the last iteration took the blocks from the cursor on, one by one
InOrder ==
  \A i \in 1 .. Len(LastRun.steps) :
    LET step == LastRun.steps[i]
    IN  /\ step.b = ReportCursor(LastRun.before) + i - 1
        /\ step.b < Unwrap(LastRun.before.NextToScanForOutputsBlock)
        /\ ReportCursor(step.before) = step.b
        /\ ReportCursor(step.db) \in {step.b, step.b + 1}
        /\ i < Len(LastRun.steps) => LastRun.steps[i + 1].before = step.db

\* Batch ids are kept only by a transaction that moves the cursor past the block
IdsWithCursor ==
  \A i \in 1 .. Len(LastRun.steps) :
    LET step == LastRun.steps[i]
    IN  /\ step.db.NextBatchId # step.before.NextBatchId =>
             /\ ReportCursor(step.db) = step.b + 1
             /\ step.db = step.txn
        /\ cursor.blocks[step.b + 1] # None => ReportCursor(step.db) = step.b

\* C38: the report task reports scanned blocks only, each once and in order:
\* next_to_potentially_report_block <= next_to_scan_for_outputs_block in every
\* state, iterations and restarts included; an iteration moves the cursor by one
\* per block it processed and never back; the batch ids of a block are acquired in
\* the transaction that moves the cursor past it; with next_to_scan = 0 the
\* iteration returns false and writes nothing.
C38_ReportCursor ==
  /\ ReportCursor(cursor.db) <= Unwrap(cursor.db.NextToScanForOutputsBlock)
  /\ cursor.last # None =>
       /\ InOrder
       /\ IdsWithCursor
       /\ ReportCursor(LastRun.db) >= ReportCursor(LastRun.before)
       /\ ReportCursor(LastRun.db) - ReportCursor(LastRun.before)
            = Cardinality({i \in 1 .. Len(LastRun.steps) : ~LastRun.steps[i].panicked})
       /\ ReportCursor(cursor.db) = ReportCursor(LastRun.db)
       /\ cursor.db.NextBatchId = LastRun.db.NextBatchId
       /\ Unwrap(LastRun.before.NextToScanForOutputsBlock) = 0 =>
            /\ LastRun.returned = Some(FALSE)
            /\ LastRun.db = LastRun.before
            /\ LastRun.steps = <<>>

\* An iteration that found the cursor at block 1 passed that block and stopped at
\* the notable block 2 with two batch ids acquired in its transaction, of which the
\* database keeps none
C38_Witness ==
  /\ cursor.last # None
  /\ Len(LastRun.steps) = 2
  /\ ReportCursor(LastRun.before) = 1
  /\ LastRun.steps[2].panicked
  /\ LastRun.steps[2].txn.NextBatchId = Some(2)
  /\ cursor.db.NextBatchId = None
  /\ ReportCursor(cursor.db) = 2

----------------------------------------------------------------------------
(* Properties of the message queue *)

\* C39: the message queue loses no message: after any interleaving of
\* queue_message calls on handles to the same service queue, message_count is the
\* number of completed calls, the message of the i-th completed call is what
\* get_message returns for its own id i - 1, no id is used twice, and get_message
\* is None for every id from message_count on.
C39_NoMessageLost ==
  /\ message_count(mq) = Len(mq.completed)
  /\ \A i \in 1 .. Len(mq.completed) :
       /\ mq.completed[i].id = i - 1
       /\ get_message(mq, i - 1) = Some(mq.completed[i].msg)
  /\ \A id \in MessageIds : id >= message_count(mq) => get_message(mq, id) = None

----------------------------------------------------------------------------
(* Properties of the scan task's queued outputs *)

\* C40: take_queued_outputs hands out each queued output at most once: the outputs
\* handed out for a block are the first of those queued for it, in queueing order;
\* right after a take they are all of them, and a second take for the block would
\* return the empty list.
C40_TakeOnce ==
  /\ \A b \in QueueBlocks :
       /\ Len(scandb.handed[b]) <= Len(scandb.queued[b])
       /\ scandb.handed[b] = SubSeq(scandb.queued[b], 1, Len(scandb.handed[b]))
  /\ scandb.last # None /\ Unwrap(scandb.last).op = "take" =>
       LET b == Unwrap(scandb.last).block
       IN  /\ scandb.handed[b] = scandb.queued[b]
           /\ take_queued_outputs(scandb.rows, b).res = <<>>

====
